---- MODULE Spec2Model ----
(***************************************************************************)
(* docnametypo: the decision engine that compares the first identifier-    *)
(* like token of a doc comment with the name of the documented symbol.     *)
(*                                                                         *)
(* A Go string is a sequence of bytes.  An ASCII byte is the one-character *)
(* string of that character; the two bytes of the UTF-8 encoding of U+00E9 *)
(* (a lower-case letter outside ASCII) are "C3" and "A9".  Offsets are     *)
(* 0-based byte offsets as in the Go code; Slice(s, lo, hi) is s[lo:hi].   *)
(***************************************************************************)
EXTENDS Integers, Sequences, FiniteSets, TLC

----------------------------------------------------------------------------
(* Bytes, runes and the unicode predicates                                 *)

LowerSeq == << "a","b","c","d","e","f","g","h","i","j","k","l","m",
               "n","o","p","q","r","s","t","u","v","w","x","y","z" >>
UpperSeq == << "A","B","C","D","E","F","G","H","I","J","K","L","M",
               "N","O","P","Q","R","S","T","U","V","W","X","Y","Z" >>
LowerSet == { LowerSeq[i] : i \in DOMAIN LowerSeq }
UpperSet == { UpperSeq[i] : i \in DOMAIN UpperSeq }
DigitSet == { "0","1","2","3","4","5","6","7","8","9" }

\* the rune U+00E9 and the replacement rune a broken encoding decodes to
RuneEAcute == "U+00E9"
RuneError == "U+FFFD"

ToLowerMap == [ c \in UpperSet |-> LowerSeq[CHOOSE i \in DOMAIN UpperSeq : UpperSeq[i] = c] ]

\* unicode.ToLower on one byte or rune of the modelled repertoire
lowerOne(c) == IF c \in UpperSet THEN ToLowerMap[c] ELSE c

IsLetter(r) == r \in LowerSet \cup UpperSet \cup {RuneEAcute}
IsLower(r) == r \in LowerSet \cup {RuneEAcute}
IsUpper(r) == r \in UpperSet
IsDigit(r) == r \in DigitSet

----------------------------------------------------------------------------
(* The Go string operations the analyzer uses                              *)

Min(a, b) == IF a <= b THEN a ELSE b
abs(x) == IF x < 0 THEN -x ELSE x

\* s[lo:hi] and s[lo:] for offsets that are in range
Slice(s, lo, hi) == SubSeq(s, lo + 1, hi)
Drop(s, n) == SubSeq(s, n + 1, Len(s))
Take(s, n) == SubSeq(s, 1, n)

\* s[lo:hi] panics unless 0 <= lo <= hi <= len(s)
SliceInRange(s, lo, hi) == 0 <= lo /\ lo <= hi /\ hi <= Len(s)
\* s[i] panics unless 0 <= i < len(s)
IndexInRange(s, i) == 0 <= i /\ i < Len(s)

ToLower(s) == [ i \in 1..Len(s) |-> lowerOne(s[i]) ]

HasPrefix(s, p) == Len(p) <= Len(s) /\ Take(s, Len(p)) = p
HasSuffix(s, p) == Len(p) <= Len(s) /\ Drop(s, Len(s) - Len(p)) = p

\* strings.EqualFold on the modelled repertoire (the only case pairs are ASCII)
EqualFold(s, t) == Len(s) = Len(t) /\ ToLower(s) = ToLower(t)

\* index of the first byte of s that is in set, or -1 (strings.IndexFunc, IndexByte)
IndexIn(s, set) ==
    IF \E i \in 1..Len(s) : s[i] \in set
    THEN (CHOOSE i \in 1..Len(s) : s[i] \in set /\ \A j \in 1..(i-1) : s[j] \notin set) - 1
    ELSE -1
IndexNotIn(s, set) ==
    IF \E i \in 1..Len(s) : s[i] \notin set
    THEN (CHOOSE i \in 1..Len(s) : s[i] \notin set /\ \A j \in 1..(i-1) : s[j] \in set) - 1
    ELSE -1

\* strings.TrimLeft / TrimRight / Trim with an ASCII cutset
TrimLeft(s, cutset) ==
    LET From(k) == IF k = -1 THEN << >> ELSE Drop(s, k) IN From(IndexNotIn(s, cutset))
TrimRight(s, cutset) ==
    IF \E i \in 1..Len(s) : s[i] \notin cutset
    THEN Take(s, CHOOSE i \in 1..Len(s) : s[i] \notin cutset /\ \A j \in (i+1)..Len(s) : s[j] \in cutset)
    ELSE << >>
Trim(s, cutset) == TrimRight(TrimLeft(s, cutset), cutset)

\* unicode.IsSpace bytes that strings.Fields splits on
SpaceSet == { " ", "\t", "\n", "\r", "\f" }

\* strings.Fields / strings.FieldsFunc: the maximal runs of bytes not in seps
RECURSIVE FieldsFunc(_, _)
FieldsFunc(s, seps) ==
    LET Cut(t, k) ==
            IF t = << >> THEN << >>
            ELSE IF k = -1 THEN << t >>
            ELSE << Take(t, k) >> \o FieldsFunc(Drop(t, k), seps)
        Split(t) == Cut(t, IndexIn(t, seps))
    IN  Split(TrimLeft(s, seps))
Fields(s) == FieldsFunc(s, SpaceSet)

\* []rune(s): decode the UTF-8 bytes
RECURSIVE Runes(_)
Runes(s) ==
    IF s = << >> THEN << >>
    ELSE IF s[1] = "C3" /\ Len(s) >= 2 /\ s[2] = "A9"
         THEN << RuneEAcute >> \o Runes(Drop(s, 2))
    ELSE IF s[1] \in {"C3", "A9"} THEN << RuneError >> \o Runes(Tail(s))
    ELSE << s[1] >> \o Runes(Tail(s))

\* string(runes): encode runes as UTF-8 bytes
RECURSIVE Encode(_)
Encode(rs) ==
    IF rs = << >> THEN << >>
    ELSE IF rs[1] = RuneEAcute THEN << "C3", "A9" >> \o Encode(Tail(rs))
    ELSE IF rs[1] = RuneError THEN << "EF", "BF", "BD" >> \o Encode(Tail(rs))
    ELSE << rs[1] >> \o Encode(Tail(rs))

----------------------------------------------------------------------------
(* TokenExtractor: flags.go (comment scanning)                             *)

NoPos == 0

\* isSkippableLabel returns true for doc labels like Deprecated or TODO.
SkippableLabels ==
    { << "d","e","p","r","e","c","a","t","e","d" >>, << "t","o","d","o" >>,
      << "n","o","t","e" >>, << "f","i","x","m","e" >>,
      << "n","o","l","i","n","t" >>, << "l","i","n","t" >>,
      << "w","a","r","n","i","n","g" >> }
isSkippableLabel(word) == word \in SkippableLabels

\* isWordBoundaryRune reports whether the rune terminates identifier scanning.
WordBoundarySet == { ",", ".", ";", ":", "(", ")", "[", "]", "{", "}", "\t", " ", "\r" }
isWordBoundaryRune(r) == r \in WordBoundarySet

\* trimWord strips punctuation around a token and returns the offset.
trimWord(word) ==
    LET Result(trimmed) ==
            [ s |-> TrimRight(trimmed, WordBoundarySet), left |-> Len(word) - Len(trimmed) ]
    IN  Result(TrimLeft(word, WordBoundarySet))

\* trimPointerPrefixes removes leading pointer markers before scanning.
trimPointerPrefixes(s) ==
    LET Result(trimmed) == [ s |-> trimmed, removed |-> Len(s) - Len(trimmed) ]
    IN  Result(TrimLeft(s, {"*", "&"}))

\* leadingIdentRun reads the initial identifier characters from a string.
IdentSet == LowerSet \cup UpperSet \cup DigitSet \cup {"_"}
leadingIdentRun(s) ==
    LET Run(i) == [ id |-> Take(s, i), n |-> i ]
        Stop(k) == Run(IF k = -1 THEN Len(s) ELSE k)
    IN  Stop(IndexNotIn(s, IdentSet))

\* fault variant of extractIdentifierToken: the bytes removed by
\* trimPointerPrefixes are left out of the token's offset
extractIdentifierToken_DropsPrefixOffset(word) ==
    LET Result(p, r) ==
            IF word = << >> \/ r.id = << >> THEN [ id |-> << >>, rel |-> 0 ]
            ELSE [ id |-> r.id, rel |-> 0 ]
        Scan(p) == Result(p, leadingIdentRun(p.s))
    IN  Scan(trimPointerPrefixes(word))

\* extractIdentifierToken pulls the leading identifier component from a word.
extractIdentifierToken(word) ==
    LET Result(p, r) ==
            IF word = << >> \/ r.id = << >> THEN [ id |-> << >>, rel |-> 0 ]
            ELSE [ id |-> r.id, rel |-> p.removed ]
        Scan(p) == Result(p, leadingIdentRun(p.s))
    IN  Scan(trimPointerPrefixes(word))

DocSpaceSet == { " ", "\t" }

\* identifierFromLine finds the first identifier token within a line.
\* the label a word is compared against the skippable labels by
labelOf(trimmed) ==
    ToLower(IF HasSuffix(trimmed, << ":" >>) THEN Take(trimmed, Len(trimmed) - 1) ELSE trimmed)

\* fault variant of identifierLoop: after a word without an identifier the
\* scan goes on to the next word
RECURSIVE identifierLoop_ScansOn(_, _)
identifierLoop_ScansOn(line, i) ==
    LET Token(tokenStart, wordLen, tw, ext) ==
            IF ext.id # << >> THEN [ id |-> ext.id, rel |-> tokenStart + tw.left + ext.rel ]
            ELSE identifierLoop_ScansOn(line, tokenStart + wordLen)
        Word(tokenStart, wordLen, tw) ==
            IF tw.s = << >> THEN identifierLoop_ScansOn(line, tokenStart + wordLen)
            ELSE IF isSkippableLabel(labelOf(tw.s)) THEN identifierLoop_ScansOn(line, tokenStart + wordLen)
            ELSE Token(tokenStart, wordLen, tw, extractIdentifierToken(tw.s))
        Cut(tokenStart, wordLen) ==
            Word(tokenStart, wordLen, trimWord(Slice(line, tokenStart, tokenStart + wordLen)))
        Measure(tokenStart, wl) ==
            Cut(tokenStart, IF wl = -1 THEN Len(line) - tokenStart ELSE wl)
        Skip(skip) ==
            IF skip = -1 THEN [ id |-> << >>, rel |-> 0 ]
            ELSE Measure(i + skip, IndexIn(Drop(line, i + skip), DocSpaceSet))
    IN  IF i >= Len(line) THEN [ id |-> << >>, rel |-> 0 ]
        ELSE Skip(IndexNotIn(Drop(line, i), DocSpaceSet))

RECURSIVE identifierLoop(_, _)
identifierLoop(line, i) ==
    LET Token(tokenStart, tw, ext) ==
            IF ext.id # << >> THEN [ id |-> ext.id, rel |-> tokenStart + tw.left + ext.rel ]
            ELSE [ id |-> << >>, rel |-> 0 ]
        Word(tokenStart, wordLen, tw) ==
            IF tw.s = << >> THEN identifierLoop(line, tokenStart + wordLen)
            ELSE IF isSkippableLabel(labelOf(tw.s)) THEN identifierLoop(line, tokenStart + wordLen)
            ELSE Token(tokenStart, tw, extractIdentifierToken(tw.s))
        Cut(tokenStart, wordLen) ==
            Word(tokenStart, wordLen, trimWord(Slice(line, tokenStart, tokenStart + wordLen)))
        Measure(tokenStart, wl) ==
            Cut(tokenStart, IF wl = -1 THEN Len(line) - tokenStart ELSE wl)
        Skip(skip) ==
            IF skip = -1 THEN [ id |-> << >>, rel |-> 0 ]
            ELSE Measure(i + skip, IndexIn(Drop(line, i + skip), DocSpaceSet))
    IN  IF i >= Len(line) THEN [ id |-> << >>, rel |-> 0 ]
        ELSE Skip(IndexNotIn(Drop(line, i), DocSpaceSet))
identifierFromLine(line) == identifierLoop(line, 0)

\* trimDocLine removes leading comment markers and trailing whitespace.
trimDocLine(line) ==
    LET Result(l3) ==
            [ s |-> TrimRight(l3, {" ", "\t", "\r"}), consumed |-> Len(line) - Len(l3) ]
    IN  Result(TrimLeft(TrimLeft(TrimLeft(line, {" ", "\t", "\r"}), {"*", " ", "\t"}),
                        {" ", "\t"}))

\* the line loop of firstDocLine
RECURSIVE docLineLoop(_, _)
docLineLoop(text, currentOffset) ==
    LET Line(rest, advance, t) ==
            IF t.s = << >> THEN docLineLoop(rest, currentOffset + advance)
            ELSE [ line |-> t.s, off |-> currentOffset + t.consumed ]
        Cut(nl) ==
            IF nl = -1 THEN Line(<< >>, Len(text), trimDocLine(text))
            ELSE Line(Drop(text, nl + 1), nl + 1, trimDocLine(Take(text, nl)))
    IN  IF text = << >> THEN [ line |-> << >>, off |-> 0 ]
        ELSE Cut(IndexIn(text, {"\n"}))

\* firstDocLine returns the first non-empty line of the raw comment text.
firstDocLine(raw) ==
    IF HasPrefix(raw, << "/", "/" >>) THEN docLineLoop(Drop(raw, 2), 2)
    ELSE IF HasPrefix(raw, << "/", "*" >>)
         THEN docLineLoop(IF HasSuffix(Drop(raw, 2), << "*", "/" >>)
                          THEN Slice(raw, 2, Len(raw) - 2) ELSE Drop(raw, 2), 2)
    ELSE docLineLoop(raw, 0)

\* the result of firstIdentifierLike when no token is found
NoToken(line) == [ tok |-> << >>, start |-> NoPos, end |-> NoPos, line |-> line ]

\* fault variant of firstIdentifierLike: a first comment without a line of
\* text passes the search on to the next comment
RECURSIVE firstIdentifierLike_NextComment(_)
firstIdentifierLike_NextComment(cg) ==
    LET Found(fl, idr, start) ==
            IF idr.id = << >> THEN NoToken(fl.line)
            ELSE [ tok |-> idr.id, start |-> start, end |-> start + Len(idr.id),
                   line |-> fl.line ]
        Ident(comment, fl, idr) == Found(fl, idr, comment.Slash + fl.off + idr.rel)
        Line(comment, fl) ==
            IF fl.line = << >>
            THEN IF Len(cg) > 1 THEN firstIdentifierLike_NextComment(Tail(cg))
                 ELSE NoToken(<< >>)
            ELSE Ident(comment, fl, identifierFromLine(fl.line))
    IN  IF cg = << >> THEN NoToken(<< >>)
        ELSE Line(cg[1], firstDocLine(cg[1].Text))

\* firstIdentifierLike extracts the first identifier-looking token from the
\* first non-empty line of a comment group, with the token range.
firstIdentifierLike(cg) ==
    LET Found(fl, idr, start) ==
            IF idr.id = << >> THEN NoToken(fl.line)
            ELSE [ tok |-> idr.id, start |-> start, end |-> start + Len(idr.id),
                   line |-> fl.line ]
        Ident(comment, fl, idr) == Found(fl, idr, comment.Slash + fl.off + idr.rel)
        Line(comment, fl) ==
            IF fl.line = << >> THEN NoToken(<< >>)
            ELSE Ident(comment, fl, identifierFromLine(fl.line))
    IN  IF cg = << >> THEN NoToken(<< >>)
        ELSE Line(cg[1], firstDocLine(cg[1].Text))

----------------------------------------------------------------------------
(* StringOps and DistanceGate: part_002 (distance helpers)                 *)

minDocTokenLen == 3
maxChunkDiffSize == 6

\* commonPrefixLength returns the length of the shared prefix.
RECURSIVE commonPrefixFrom(_, _, _)
commonPrefixFrom(a, b, i) ==
    IF i < Min(Len(a), Len(b)) /\ a[i + 1] = b[i + 1] THEN commonPrefixFrom(a, b, i + 1) ELSE i
commonPrefixLength(a, b) == commonPrefixFrom(a, b, 0)

\* commonSuffixLength returns the length of the shared suffix.
RECURSIVE commonSuffixFrom(_, _, _)
commonSuffixFrom(a, b, count) ==
    IF count < Len(a) /\ count < Len(b) /\ a[Len(a) - count] = b[Len(b) - count]
    THEN commonSuffixFrom(a, b, count + 1) ELSE count
commonSuffixLength(a, b) == commonSuffixFrom(a, b, 0)

\* fault variant of dlRow: the transposition case is left out
RECURSIVE dlRow_NoTransposition(_, _, _, _, _)
dlRow_NoTransposition(ra, rb, i, d, acc) ==
    LET j == Len(acc)
        cost == IF ra[i] # rb[j] THEN 1 ELSE 0
        del == d[i][j + 1] + 1
        ins == acc[j] + 1
        sub == d[i][j] + cost
        v == Min(del, Min(ins, sub))
    IN  IF j > Len(rb) THEN acc ELSE dlRow_NoTransposition(ra, rb, i, d, Append(acc, v))

\* One row d[i][0..nb] of the matrix d, built left to right: acc holds
\* d[i][0..j-1] and d holds the rows d[0..i-1] (row k at index k+1, cell j
\* at index j+1).
RECURSIVE dlRow(_, _, _, _, _)
dlRow(ra, rb, i, d, acc) ==
    LET j == Len(acc)
        cost == IF ra[i] # rb[j] THEN 1 ELSE 0
        del == d[i][j + 1] + 1
        ins == acc[j] + 1
        sub == d[i][j] + cost
        v == Min(del, Min(ins, sub))
        w == IF i > 1 /\ j > 1 /\ ra[i] = rb[j - 1] /\ ra[i - 1] = rb[j]
             THEN Min(v, d[i - 1][j - 1] + 1) ELSE v
    IN  IF j > Len(rb) THEN acc ELSE dlRow(ra, rb, i, d, Append(acc, w))

RECURSIVE dlRows(_, _, _)
dlRows(ra, rb, d) ==
    LET i == Len(d)
    IN  IF i > Len(ra) THEN d[i][Len(rb) + 1]
        ELSE dlRows(ra, rb, Append(d, dlRow(ra, rb, i, d, << i >>)))

\* damerauLevenshtein computes the optimal string edit distance with
\* transpositions, over runes.
damerauLevenshtein(a, b) ==
    LET Distance(ra, rb) ==
            IF Len(ra) = 0 THEN Len(rb)
            ELSE IF Len(rb) = 0 THEN Len(ra)
            ELSE dlRows(ra, rb, << [ j \in 1..(Len(rb) + 1) |-> j - 1 ] >>)
    IN  Distance(Runes(a), Runes(b))

\* fault variant of passesDistanceGate: the fallback accepts half the token
\* shared, whatever the distance
passesDistanceGate_LooseFallback(doc, name, dist) ==
    LET docLen == Len(doc)
        nameLen == Len(name)
        required == IF docLen - dist < minDocTokenLen THEN minDocTokenLen ELSE docLen - dist
        Enough(shared) ==
            IF shared >= required THEN TRUE
            ELSE docLen >= 2 * minDocTokenLen /\ shared * 2 >= docLen
    IN  IF dist <= 0 THEN FALSE
        ELSE IF docLen < minDocTokenLen + dist \/ nameLen < minDocTokenLen THEN FALSE
        ELSE Enough(Min(docLen, commonPrefixLength(doc, name) + commonSuffixLength(doc, name)))

\* fault variant of passesDistanceGate: the name must be as long as the token
\* and the distance together
passesDistanceGate_LongName(doc, name, dist) ==
    LET docLen == Len(doc)
        nameLen == Len(name)
        required == IF docLen - dist < minDocTokenLen THEN minDocTokenLen ELSE docLen - dist
        Enough(shared) ==
            IF shared >= required THEN TRUE
            ELSE docLen >= 2 * minDocTokenLen /\ shared * 2 >= docLen /\ docLen - shared <= dist
    IN  IF dist <= 0 THEN FALSE
        ELSE IF docLen < minDocTokenLen + dist \/ nameLen < minDocTokenLen + dist THEN FALSE
        ELSE Enough(Min(docLen, commonPrefixLength(doc, name) + commonSuffixLength(doc, name)))

\* fault variant of passesDistanceGate: the shared bytes must exceed the
\* required number
passesDistanceGate_StrictShare(doc, name, dist) ==
    LET docLen == Len(doc)
        nameLen == Len(name)
        required == IF docLen - dist < minDocTokenLen THEN minDocTokenLen ELSE docLen - dist
        Enough(shared) ==
            IF shared > required THEN TRUE
            ELSE docLen >= 2 * minDocTokenLen /\ shared * 2 >= docLen /\ docLen - shared < dist
    IN  IF dist <= 0 THEN FALSE
        ELSE IF docLen < minDocTokenLen + dist \/ nameLen < minDocTokenLen THEN FALSE
        ELSE Enough(Min(docLen, commonPrefixLength(doc, name) + commonSuffixLength(doc, name)))

\* passesDistanceGate ensures the distance match shares enough overlap.
passesDistanceGate(doc, name, dist) ==
    LET docLen == Len(doc)
        nameLen == Len(name)
        required == IF docLen - dist < minDocTokenLen THEN minDocTokenLen ELSE docLen - dist
        Enough(shared) ==
            IF shared >= required THEN TRUE
            ELSE docLen >= 2 * minDocTokenLen /\ shared * 2 >= docLen /\ docLen - shared <= dist
    IN  IF dist <= 0 THEN FALSE
        ELSE IF docLen < minDocTokenLen + dist \/ nameLen < minDocTokenLen THEN FALSE
        ELSE Enough(Min(docLen, commonPrefixLength(doc, name) + commonSuffixLength(doc, name)))

----------------------------------------------------------------------------
(* CamelSplitter: camel.go (splitCamelWords) over internal/camelcase       *)

ValidString(s) ==
    LET Valid(rs) == \A i \in 1..Len(rs) : rs[i] # RuneError IN Valid(Runes(s))

\* A chunk boundary lies before rune idx (1-based, idx > 1).
camelBoundary(runes, idx) ==
    LET prev == runes[idx - 1]
        curr == runes[idx]
    IN  \/ IsDigit(prev) # IsDigit(curr)
        \/ IsLetter(prev) # IsLetter(curr)
        \/ IsLower(prev) /\ IsUpper(curr)
        \/ IsUpper(prev) /\ IsUpper(curr) /\ idx + 1 <= Len(runes) /\ IsLower(runes[idx + 1])

RECURSIVE camelParts(_, _, _)
camelParts(runes, start, i) ==
    IF i > Len(runes) THEN << Encode(SubSeq(runes, start, Len(runes))) >>
    ELSE IF camelBoundary(runes, i)
         THEN << Encode(SubSeq(runes, start, i - 1)) >> \o camelParts(runes, i, i + 1)
    ELSE camelParts(runes, start, i + 1)

\* camelcase.Split: the parts of s in their original letter case
camelcaseSplit(s) == IF s = << >> THEN << >> ELSE camelParts(Runes(s), 1, 2)

\* fault variant of shouldMergeCamelParts: nothing is merged
shouldMergeCamelParts_Never(a, b) == FALSE

\* shouldMergeCamelParts: a single capital followed by a capitalised part
\* with no further capitals (the tail of an acronym with a suffix, "I"+"Ps").
shouldMergeCamelParts(a, b) ==
    LET Merge(ra, rb) ==
            /\ Len(a) = 1
            /\ IsUpper(ra[1])
            /\ Len(b) >= 2
            /\ IsUpper(rb[1])
            /\ Len(rb) >= 2
            /\ \A k \in 2..Len(rb) : ~IsUpper(rb[k])
    IN  Merge(Runes(a), Runes(b))

RECURSIVE mergeCamelParts(_, _)
mergeCamelParts(rawParts, i) ==
    IF i > Len(rawParts) THEN << >>
    ELSE IF i + 1 <= Len(rawParts) /\ shouldMergeCamelParts(rawParts[i], rawParts[i + 1])
         THEN << ToLower(rawParts[i] \o rawParts[i + 1]) >> \o mergeCamelParts(rawParts, i + 2)
    ELSE << ToLower(rawParts[i]) >> \o mergeCamelParts(rawParts, i + 1)

\* splitCamelWords tokenizes a camelCase or snake_case identifier.
splitCamelWords(str) ==
    LET Words(s, rawParts) ==
            IF rawParts = << >> THEN << ToLower(s) >> ELSE mergeCamelParts(rawParts, 1)
        Split(s) ==
            IF s = << >> THEN << >>
            ELSE IF ~ValidString(s) THEN << ToLower(s) >>
            ELSE Words(s, SelectSeq(camelcaseSplit(s), LAMBDA p : p # << >>))
    IN  Split(SelectSeq(str, LAMBDA c : c # "_"))

----------------------------------------------------------------------------
(* CamelHeuristics: camel.go                                               *)

\* wordClose reports whether two words are similar under distance
\* heuristics; maxDist is the value of maxDistFlag it reads.
wordClose(a, b, maxDist) ==
    LET Close(al, bl, minLen) ==
            IF al = bl THEN TRUE
            ELSE IF damerauLevenshtein(al, bl) > maxDist + 1 THEN FALSE
            ELSE IF minLen <= 1 THEN FALSE
            ELSE \/ commonPrefixLength(al, bl) >= (IF minLen - 2 < 2 THEN minLen ELSE minLen - 2)
                 \/ commonSuffixLength(al, bl) >= (IF minLen - 2 < 2 THEN minLen ELSE minLen - 2)
    IN  IF a = << >> \/ b = << >> THEN FALSE
        ELSE Close(ToLower(a), ToLower(b), Min(Len(a), Len(b)))

\* the indices at which two chunk lists of equal length differ
Mismatches(docWords, symWords) == { i \in 1..Len(docWords) : docWords[i] # symWords[i] }

\* fault variant of hasCamelChunkReplacement: no matching chunk is required
hasCamelChunkReplacement_NoMatchNeeded(docToken, symbol, maxMismatch) ==
    LET Counted(n, mismatches) ==
            IF mismatches > maxMismatch \/ mismatches = 0 THEN FALSE
            ELSE n - mismatches >= n - maxMismatch
        Compare(docWords, symWords) ==
            IF Len(docWords) = 0 \/ Len(docWords) # Len(symWords) THEN FALSE
            ELSE IF Len(docWords) < 2 THEN FALSE
            ELSE Counted(Len(docWords), Cardinality(Mismatches(docWords, symWords)))
    IN  IF maxMismatch <= 0 THEN FALSE
        ELSE Compare(splitCamelWords(docToken), splitCamelWords(symbol))

\* fault variant of hasCamelChunkReplacement: equal chunk lists are accepted
hasCamelChunkReplacement_ZeroMismatch(docToken, symbol, maxMismatch) ==
    LET Counted(n, mismatches) ==
            IF mismatches > maxMismatch THEN FALSE
            ELSE n - mismatches > 0 /\ n - mismatches >= n - maxMismatch
        Compare(docWords, symWords) ==
            IF Len(docWords) = 0 \/ Len(docWords) # Len(symWords) THEN FALSE
            ELSE IF Len(docWords) < 2 THEN FALSE
            ELSE Counted(Len(docWords), Cardinality(Mismatches(docWords, symWords)))
    IN  IF maxMismatch <= 0 THEN FALSE
        ELSE Compare(splitCamelWords(docToken), splitCamelWords(symbol))

\* hasCamelChunkReplacement allows a limited number of camel chunks to differ.
hasCamelChunkReplacement(docToken, symbol, maxMismatch) ==
    LET Counted(n, mismatches) ==
            IF mismatches > maxMismatch \/ mismatches = 0 THEN FALSE
            ELSE n - mismatches > 0 /\ n - mismatches >= n - maxMismatch
        Compare(docWords, symWords) ==
            IF Len(docWords) = 0 \/ Len(docWords) # Len(symWords) THEN FALSE
            ELSE IF Len(docWords) < 2 THEN FALSE
            ELSE Counted(Len(docWords), Cardinality(Mismatches(docWords, symWords)))
    IN  IF maxMismatch <= 0 THEN FALSE
        ELSE Compare(splitCamelWords(docToken), splitCamelWords(symbol))

\* slices.Index: 0-based index of chunk in list from 0-based pos, or -1
IndexFrom(list, pos, chunk) ==
    IF \E i \in (pos + 1)..Len(list) : list[i] = chunk
    THEN (CHOOSE i \in (pos + 1)..Len(list) :
              list[i] = chunk /\ \A j \in (pos + 1)..(i - 1) : list[j] # chunk) - 1 - pos
    ELSE -1

\* camelSubsequence checks if the shorter chunk list appears in order.
RECURSIVE camelSubsequenceFrom(_, _, _, _, _, _)
camelSubsequenceFrom(shorter, longer, maxSkips, k, pos, skips) ==
    LET At(idx) ==
            IF idx = -1 THEN FALSE
            ELSE IF skips + idx > maxSkips THEN FALSE
            ELSE camelSubsequenceFrom(shorter, longer, maxSkips, k + 1, pos + idx + 1, skips + idx)
    IN  IF k > Len(shorter) THEN Len(shorter) > 0
        ELSE At(IndexFrom(longer, pos, shorter[k]))
camelSubsequence(shorter, longer, maxSkips) ==
    IF Len(shorter) = 0 \/ Len(longer) = 0 THEN FALSE
    ELSE camelSubsequenceFrom(shorter, longer, maxSkips, 1, 0, 0)

\* fault variant of hasCamelChunkInsertionOrRemoval: the difference of the
\* chunk counts is not limited
hasCamelChunkInsertionOrRemoval_NoDiffLimit(docToken, symbol, maxChunkDiff) ==
    LET Compare(docWords, symWords, diff) ==
            IF Len(docWords) = 0 \/ Len(symWords) = 0 THEN FALSE
            ELSE IF diff = 0 THEN FALSE
            ELSE IF Len(docWords) > Len(symWords)
                 THEN camelSubsequence(symWords, docWords, maxChunkDiff)
            ELSE camelSubsequence(docWords, symWords, maxChunkDiff)
        Split(docWords, symWords) ==
            Compare(docWords, symWords, abs(Len(docWords) - Len(symWords)))
    IN  IF maxChunkDiff <= 0 THEN FALSE
        ELSE Split(splitCamelWords(docToken), splitCamelWords(symbol))

\* hasCamelChunkInsertionOrRemoval tolerates inserted or removed camel chunks.
hasCamelChunkInsertionOrRemoval(docToken, symbol, maxChunkDiff) ==
    LET Compare(docWords, symWords, diff) ==
            IF Len(docWords) = 0 \/ Len(symWords) = 0 THEN FALSE
            ELSE IF diff = 0 \/ diff > maxChunkDiff THEN FALSE
            ELSE IF Len(docWords) > Len(symWords)
                 THEN camelSubsequence(symWords, docWords, maxChunkDiff)
            ELSE camelSubsequence(docWords, symWords, maxChunkDiff)
        Split(docWords, symWords) ==
            Compare(docWords, symWords, abs(Len(docWords) - Len(symWords)))
    IN  IF maxChunkDiff <= 0 THEN FALSE
        ELSE Split(splitCamelWords(docToken), splitCamelWords(symbol))

\* fault variant of isCamelSwapVariant: only neighbouring chunks may be swapped
isCamelSwapVariant_AdjacentOnly(docToken, symbol) ==
    LET Swapped(docWords, symWords, diffs) ==
            IF Cardinality(diffs) # 2 THEN FALSE
            ELSE \E i, j \in diffs :
                     j = i + 1 /\ docWords[i] = symWords[j] /\ docWords[j] = symWords[i]
        Compare(docWords, symWords) ==
            IF Len(docWords) # Len(symWords) \/ Len(docWords) < 2 THEN FALSE
            ELSE Swapped(docWords, symWords, Mismatches(docWords, symWords))
    IN  Compare(splitCamelWords(docToken), splitCamelWords(symbol))

\* isCamelSwapVariant detects swapped camel chunks.
isCamelSwapVariant(docToken, symbol) ==
    LET Swapped(docWords, symWords, diffs) ==
            IF Cardinality(diffs) # 2 THEN FALSE
            ELSE \E i, j \in diffs :
                     i < j /\ docWords[i] = symWords[j] /\ docWords[j] = symWords[i]
        Compare(docWords, symWords) ==
            IF Len(docWords) # Len(symWords) \/ Len(docWords) < 2 THEN FALSE
            ELSE Swapped(docWords, symWords, Mismatches(docWords, symWords))
    IN  Compare(splitCamelWords(docToken), splitCamelWords(symbol))

\* hasSimilarCamelWord allows a single camel chunk to be a close typo;
\* wordClose is consulted for the first differing chunk only.
hasSimilarCamelWord(docToken, symbol, maxDist) ==
    LET Single(docWords, symWords, diffs) ==
            /\ Cardinality(diffs) = 1
            /\ \A i \in diffs : wordClose(docWords[i], symWords[i], maxDist)
        Compare(docWords, symWords) ==
            IF Len(docWords) = 0 \/ Len(docWords) # Len(symWords) THEN FALSE
            ELSE Single(docWords, symWords, Mismatches(docWords, symWords))
    IN  Compare(splitCamelWords(docToken), splitCamelWords(symbol))

\* fault variant of hasSmallChunkDifference: the extra bytes stand at the
\* head or at the tail only
RECURSIVE hasSmallChunkDifference_EndsOnly(_, _, _)
hasSmallChunkDifference_EndsOnly(a, b, maxChunk) ==
    IF maxChunk <= 0 THEN FALSE
    ELSE IF Len(a) = Len(b) THEN FALSE
    ELSE IF Len(a) < Len(b) THEN hasSmallChunkDifference_EndsOnly(b, a, maxChunk)
    ELSE LET diff == Len(a) - Len(b)
         IN  IF diff > maxChunk THEN FALSE
             ELSE \E i \in { 0, Len(a) - diff } :
                      HasPrefix(b, Take(a, i)) /\ HasSuffix(b, Drop(a, i + diff))

\* hasSmallChunkDifference allows a small suffix/prefix chunk variance.
RECURSIVE hasSmallChunkDifference(_, _, _)
hasSmallChunkDifference(a, b, maxChunk) ==
    IF maxChunk <= 0 THEN FALSE
    ELSE IF Len(a) = Len(b) THEN FALSE
    ELSE IF Len(a) < Len(b) THEN hasSmallChunkDifference(b, a, maxChunk)
    ELSE LET diff == Len(a) - Len(b)
         IN  IF diff > maxChunk THEN FALSE
             ELSE \E i \in 0..(Len(a) - diff) :
                      HasPrefix(b, Take(a, i)) /\ HasSuffix(b, Drop(a, i + diff))

----------------------------------------------------------------------------
(* NarrativeFilters: part_002 (heuristics)                                 *)

sectionHeaderSecondWords ==
    { << "h", "e", "l", "p", "e", "r" >>, << "h", "e", "l", "p", "e", "r", "s" >>, << "s", "e", "c", "t", "i", "o", "n" >>, << "s", "e", "c", "t", "i", "o", "n", "s" >>, << "o", "v", "e", "r", "v", "i", "e", "w" >>, << "s", "u", "m", "m", "a", "r", "y" >> }

narrativeSecondWords ==
    { << "t", "h", "a", "t" >>, << "t", "h", "e" >>, << "a" >>, << "a", "n" >>, << "t", "h", "i", "s" >>, << "t", "h", "e", "s", "e" >>, << "t", "h", "o", "s", "e" >>, << "w", "h", "e", "t", "h", "e", "r" >>, << "i", "f" >> }

\* stripWordToken removes punctuation from both ends of a token.
stripWordToken(word) == Trim(word, { " ", "\t", ":", ".", ",", ";", "\r", "\n", "-", "*" })

\* fault variant of looksLikeSimpleWord: any run of letters is a simple word
looksLikeSimpleWord_AnyLetters(word) ==
    LET Simple(runes) == \A i \in 1..Len(runes) : IsLetter(runes[i])
    IN  IF word = << >> THEN FALSE ELSE Simple(Runes(word))

\* looksLikeSimpleWord reports whether the token is a single plain word.
looksLikeSimpleWord(word) ==
    LET Simple(runes, rest) ==
            IF \E i \in 1..Len(runes) : ~IsLetter(runes[i]) THEN FALSE
            ELSE IF Len(runes) = 1 THEN TRUE
            ELSE IF ToLower(rest) # rest THEN FALSE
            ELSE IsLower(runes[1]) \/ IsUpper(runes[1])
        Decode(runes) == Simple(runes, Encode(Tail(runes)))
    IN  IF word = << >> THEN FALSE ELSE Decode(Runes(word))

\* hasCamelCaseInterior reports whether a name contains inner capitals.
hasCamelCaseInterior(name) == \E i \in 2..Len(name) : IsUpper(name[i])

\* isSectionHeader reports whether the doc line looks like a heading.
\* the test isSectionHeader and isNarrativeSentenceIntro share: the first
\* field is the token and the second, stripped and lowered, is in words
secondWordIn(firstTok, line, words) ==
    LET Test(fields) ==
            IF Len(fields) < 2 THEN FALSE
            ELSE IF ~EqualFold(firstTok, stripWordToken(fields[1])) THEN FALSE
            ELSE ToLower(stripWordToken(fields[2])) \in words
    IN  Test(Fields(line))

isSectionHeader(firstTok, line) ==
    IF firstTok = << >> \/ line = << >> THEN FALSE
    ELSE secondWordIn(firstTok, line, sectionHeaderSecondWords)

\* isNarrativeSentenceIntro detects natural-language sentences.
isNarrativeSentenceIntro(firstTok, line) ==
    IF ~looksLikeSimpleWord(firstTok) \/ line = << >> THEN FALSE
    ELSE secondWordIn(firstTok, line, narrativeSecondWords)

\* fault variant of readsByteAfterToken: the length of the line is not
\* compared with the length of the token
readsByteAfterToken_NoLengthTest(lowerLine, lowerToken) == HasPrefix(lowerLine, lowerToken)

\* the condition under which containsWildcardToken reads the byte of the
\* line that follows the token, lowerLine[len(lowerToken)]
readsByteAfterToken(lowerLine, lowerToken) ==
    HasPrefix(lowerLine, lowerToken) /\ Len(lowerLine) > Len(lowerToken)

\* containsWildcardToken returns true if the token is clearly generic.
containsWildcardToken(token, line) ==
    LET After(lowerLine, lowerToken) ==
            IF readsByteAfterToken(lowerLine, lowerToken)
            THEN lowerLine[Len(lowerToken) + 1] = "*"
            ELSE FALSE
    IN  IF \E i \in 1..Len(token) : token[i] \in { "*", "?", "[", "]" } THEN TRUE
        ELSE IF token = << >> \/ line = << >> THEN FALSE
        ELSE After(ToLower(line), ToLower(token))

\* fault variant of docFirstWordHasDot: any '.' in the first word counts
docFirstWordHasDot_AnyDot(line) ==
    LET First(fields) ==
            IF Len(fields) = 0 THEN FALSE ELSE IndexIn(fields[1], {"."}) # -1
    IN  IF line = << >> THEN FALSE ELSE First(Fields(line))

\* docFirstWordHasDot detects package-qualified references like json.Marshal.
docFirstWordHasDot(line) ==
    LET Dot(word, idx) ==
            IF idx = -1 THEN FALSE
            ELSE IF Take(word, idx) = << >> THEN TRUE
            ELSE Take(word, idx) = ToLower(Take(word, idx))
        First(fields) ==
            IF Len(fields) = 0 THEN FALSE ELSE Dot(fields[1], IndexIn(fields[1], {"."}))
    IN  IF line = << >> THEN FALSE ELSE First(Fields(line))

\* isNarrativeVerbForm detects verbs like "Creates" when the symbol starts similarly.
isNarrativeVerbForm(word, funcName) ==
    LET Stem(lowerWord, stem) ==
            IF ~HasSuffix(lowerWord, << "s" >>) THEN FALSE
            ELSE IF stem = << >> THEN FALSE
            ELSE HasPrefix(ToLower(funcName), stem)
    IN  IF Len(word) < 2 THEN FALSE
        ELSE Stem(ToLower(word), Take(ToLower(word), Len(word) - 1))

----------------------------------------------------------------------------
(* MatchConfig: part_008                                                   *)

defaultAllowedLeadingWords ==
    <<
    "c", "r", "e", "a", "t", "e", ",", "c", "r", "e", "a", "t", "e", "s", ",", "c", "r", "e", "a",
    "t", "i", "n", "g", ",", "i", "n", "i", "t", "i", "a", "l", "i", "z", "e", ",", "i", "n", "i",
    "t", "i", "a", "l", "i", "z", "e", "s", ",", "i", "n", "i", "t", ",", "c", "o", "n", "f", "i",
    "g", "u", "r", "e", ",", "c", "o", "n", "f", "i", "g", "u", "r", "e", "s", ",", "s", "e", "t",
    "u", "p", ",", "s", "e", "t", "u", "p", "s", ",", "s", "t", "a", "r", "t", ",", "s", "t", "a",
    "r", "t", "s", ",", "r", "e", "a", "d", ",", "r", "e", "a", "d", "s", ",", "w", "r", "i", "t",
    "e", ",", "w", "r", "i", "t", "e", "s", ",", "s", "e", "n", "d", ",", "s", "e", "n", "d", "s",
    ",", "g", "e", "n", "e", "r", "a", "t", "e", ",", "g", "e", "n", "e", "r", "a", "t", "e", "s",
    ",", "d", "e", "c", "o", "d", "e", ",", "d", "e", "c", "o", "d", "e", "s", ",", "e", "n", "c",
    "o", "d", "e", ",", "e", "n", "c", "o", "d", "e", "s", ",", "m", "a", "r", "s", "h", "a", "l",
    ",", "m", "a", "r", "s", "h", "a", "l", "s", ",", "u", "n", "m", "a", "r", "s", "h", "a", "l",
    ",", "u", "n", "m", "a", "r", "s", "h", "a", "l", "s", ",", "a", "p", "p", "l", "y", ",", "a",
    "p", "p", "l", "i", "e", "s", ",", "p", "r", "o", "c", "e", "s", "s", ",", "p", "r", "o", "c",
    "e", "s", "s", "e", "s", ",", "m", "a", "k", "e", ",", "m", "a", "k", "e", "s", ",", "b", "u",
    "i", "l", "d", ",", "b", "u", "i", "l", "d", "s", ",", "t", "e", "s", "t", ",", "t", "e", "s",
    "t", "s" >>

\* fault variant of splitCSV: only comma and white space separate
splitCSV_CommaAndSpace(raw) == FieldsFunc(raw, { ",", "\n", "\t", " " })

\* splitCSV splits a comma/whitespace separated list and trims empties.
splitCSV(raw) == FieldsFunc(raw, { ",", ";", "/", "\n", "\t", " " })

\* buildAllowedLeadingWords normalizes the CSV list of narrative words.
buildAllowedLeadingWords(raw) ==
    LET Set(words) == { ToLower(words[i]) : i \in 1..Len(words) } IN Set(splitCSV(raw))

\* newMatchConfig builds the configuration used for doc/token comparisons.
newMatchConfig(fl) ==
    [ allowedLeadingWords |-> buildAllowedLeadingWords(fl.allowedLeadingWords),
      allowedPrefixes |-> splitCSV(fl.allowedPrefixes) ]

\* isAllowedLeadingWord reports whether the token is in the narrative word list.
isAllowedLeadingWord(c, word) ==
    IF word = << >> \/ c.allowedLeadingWords = {} THEN FALSE
    ELSE ToLower(word) \in c.allowedLeadingWords

\* one configured prefix of matchesAllowedPrefixVariant
prefixVariant(rawPrefix, docToken, symbol) ==
    LET Variant(prefix) ==
            IF prefix = << >> \/ Len(symbol) <= Len(prefix) THEN FALSE
            ELSE IF ~HasPrefix(ToLower(symbol), ToLower(prefix)) THEN FALSE
            ELSE Drop(symbol, Len(prefix)) # << >>
                    /\ EqualFold(docToken, Drop(symbol, Len(prefix)))
    IN  Variant(Trim(rawPrefix, SpaceSet))

\* fault variant of matchesAllowedPrefixVariant: only the first configured
\* prefix is tried
matchesAllowedPrefixVariant_FirstOnly(c, docToken, symbol) ==
    IF Len(c.allowedPrefixes) = 0 THEN FALSE
    ELSE prefixVariant(c.allowedPrefixes[1], docToken, symbol)

\* matchesAllowedPrefixVariant checks if removing a configured prefix yields a match.
matchesAllowedPrefixVariant(c, docToken, symbol) ==
    IF Len(c.allowedPrefixes) = 0 THEN FALSE
    ELSE \E k \in 1..Len(c.allowedPrefixes) : prefixVariant(c.allowedPrefixes[k], docToken, symbol)

----------------------------------------------------------------------------
(* Engine: part_004 (run, checkSymbol, checkInterfaceMethods)              *)

kindFunc == "kindFunc"
kindType == "kindType"

\* ast.IsExported: the name begins with an upper-case letter
IsExported(name) == name # << >> /\ IsUpper(Runes(name)[1])

\* The package-level flag variables and their initial values (flags.go).
DefaultFlags ==
    [ maxDist |-> 5,
      includeUnexported |-> TRUE,
      includeExported |-> FALSE,
      includeTypes |-> FALSE,
      includeGenerated |-> FALSE,
      includeInterfaceMethods |-> FALSE,
      allowedLeadingWords |-> defaultAllowedLeadingWords,
      allowedPrefixes |-> << >>,
      skipPlainWordCamel |-> TRUE,
      maxCamelChunkInsert |-> 2,
      maxCamelChunkReplace |-> 2 ]


\* fault variant of Message: the token is printed in lower case
Message_LowerToken(firstTok, name) ==
    << "d", "o", "c", " ", "c", "o", "m", "m", "e", "n", "t", " ", "s", "t", "a", "r", "t", "s", " ", "w", "i", "t", "h", " ", "'" >>
        \o ToLower(firstTok)
        \o << "'", " ", "b", "u", "t", " ", "s", "y", "m", "b", "o", "l", " ", "i", "s", " ", "'" >>
        \o name
        \o << "'", " ", "(", "p", "o", "s", "s", "i", "b", "l", "e", " ", "t", "y", "p", "o", " ", "o", "r", " ", "o", "l", "d", " ", "n", "a", "m", "e", ")" >>

\* the message of a diagnostic
Message(firstTok, name) ==
    << "d", "o", "c", " ", "c", "o", "m", "m", "e", "n", "t", " ", "s", "t", "a", "r", "t", "s", " ", "w", "i", "t", "h", " ", "'" >>
        \o firstTok
        \o << "'", " ", "b", "u", "t", " ", "s", "y", "m", "b", "o", "l", " ", "i", "s", " ", "'" >>
        \o name
        \o << "'", " ", "(", "p", "o", "s", "s", "i", "b", "l", "e", " ", "t", "y", "p", "o", " ", "o", "r", " ", "o", "l", "d", " ", "n", "a", "m", "e", ")" >>

\* fault variant of passesExportGate: exported symbols are always admitted
passesExportGate_ExportedAlways(fl, name, doc, exported) ==
    IF name = << >> \/ doc = << >> THEN FALSE
    ELSE IF exported THEN TRUE
    ELSE fl.includeUnexported

\* the export gate at the head of checkSymbol
passesExportGate(fl, name, doc, exported) ==
    IF name = << >> \/ doc = << >> THEN FALSE
    ELSE IF exported THEN fl.includeExported
    ELSE fl.includeUnexported

\* fault variant of tokenTooShort: only the empty token is rejected
tokenTooShort_EmptyOnly(firstTok) == firstTok = << >>

\* the token test that follows the extraction in checkSymbol
tokenTooShort(firstTok) == firstTok = << >> \/ Len(firstTok) < minDocTokenLen

\* the narrative filters of checkSymbol, in order; TRUE when one suppresses
narrativeFilter(c, fl, t, name, kind) ==
    \/ docFirstWordHasDot(t.line)
    \/ isAllowedLeadingWord(c, t.tok)
    \/ matchesAllowedPrefixVariant(c, t.tok, name)
    \/ isSectionHeader(t.tok, t.line)
    \/ isNarrativeSentenceIntro(t.tok, t.line)
    \/ containsWildcardToken(t.tok, t.line)
    \/ (kind = kindFunc /\ isNarrativeVerbForm(t.tok, name))
    \/ (fl.skipPlainWordCamel /\ looksLikeSimpleWord(t.tok) /\ hasCamelCaseInterior(name))

\* the length pre-check; maxDist is the value of maxDistFlag it reads
lengthPreCheck(firstTok, name, maxDist) ==
    LET lenDiff == abs(Len(firstTok) - Len(name))
    IN  lenDiff <= maxDist + 1 \/ lenDiff <= maxChunkDiffSize

\* fault variant of distanceMatch: the distance must equal maxDist
distanceMatch_ExactDistance(docLower, nameLower, maxDist) ==
    LET d == damerauLevenshtein(docLower, nameLower)
    IN  d > 0 /\ d = maxDist /\ passesDistanceGate(docLower, nameLower, d)

\* the edit-distance branch; maxDist is the value of maxDistFlag it reads
distanceMatch(docLower, nameLower, maxDist) ==
    LET d == damerauLevenshtein(docLower, nameLower)
    IN  d > 0 /\ d <= maxDist /\ passesDistanceGate(docLower, nameLower, d)

\* fault variant of cascadeMatch: the case-insensitive equality branch is
\* left out
cascadeMatch_NoCaseBranch(fl, firstTok, name, docLower, nameLower, maxDist) ==
    \/ isCamelSwapVariant(firstTok, name)
    \/ hasSimilarCamelWord(firstTok, name, maxDist)
    \/ hasCamelChunkReplacement(firstTok, name, fl.maxCamelChunkReplace)
    \/ hasCamelChunkInsertionOrRemoval(firstTok, name, fl.maxCamelChunkInsert)
    \/ (nameLower # << >> /\ docLower # << >>
          /\ hasSmallChunkDifference(docLower, nameLower, maxChunkDiffSize))

\* the branches tried after the edit-distance branch, in order
cascadeMatch(fl, firstTok, name, docLower, nameLower, maxDist) ==
    \/ isCamelSwapVariant(firstTok, name)
    \/ (EqualFold(firstTok, name) /\ firstTok # name)
    \/ hasSimilarCamelWord(firstTok, name, maxDist)
    \/ hasCamelChunkReplacement(firstTok, name, fl.maxCamelChunkReplace)
    \/ hasCamelChunkInsertionOrRemoval(firstTok, name, fl.maxCamelChunkInsert)
    \/ (nameLower # << >> /\ docLower # << >>
          /\ hasSmallChunkDifference(docLower, nameLower, maxChunkDiffSize))

\* the similarity decision of checkSymbol; mdPre, mdCmp and mdWord are the
\* values of maxDistFlag read by the pre-check, the comparison and wordClose
similar(fl, firstTok, name, mdPre, mdCmp, mdWord) ==
    LET Branches(pre, docLower, nameLower) ==
            \/ (pre /\ distanceMatch(docLower, nameLower, mdCmp))
            \/ cascadeMatch(fl, firstTok, name, docLower, nameLower, mdWord)
        Lowered(pre) ==
            Branches(pre, IF pre THEN ToLower(firstTok) ELSE << >>,
                          IF pre THEN ToLower(name) ELSE << >>)
    IN  Lowered(lengthPreCheck(firstTok, name, mdPre))

\* fault variant of cascadeStep: the camel-swap statement is left out
cascadeStep_NoSwap(b, s, f) ==
    IF b = 1
    THEN IF f.pre THEN [ match |-> f.dist, lowered |-> TRUE ] ELSE s
    ELSE IF s.match THEN s
    ELSE IF b = 3 THEN [ s EXCEPT !.match = f.fold ]
    ELSE IF b = 4 THEN [ s EXCEPT !.match = f.word ]
    ELSE IF b = 5 THEN [ s EXCEPT !.match = f.repl ]
    ELSE IF b = 6 THEN [ s EXCEPT !.match = f.ins ]
    ELSE IF b = 7 THEN [ s EXCEPT !.match = s.lowered /\ f.delta ]
    ELSE s

\* what the seven similarity statements of checkSymbol compute for a token
\* and a name: the length pre-check, the edit-distance comparison with its
\* gate, the five camel and case tests, and the byte-delta test on the
\* lower-cased strings
cascadeFacts(fl, firstTok, name) ==
    [ pre |-> lengthPreCheck(firstTok, name, fl.maxDist),
      dist |-> distanceMatch(ToLower(firstTok), ToLower(name), fl.maxDist),
      swap |-> isCamelSwapVariant(firstTok, name),
      fold |-> EqualFold(firstTok, name) /\ firstTok # name,
      word |-> hasSimilarCamelWord(firstTok, name, fl.maxDist),
      repl |-> hasCamelChunkReplacement(firstTok, name, fl.maxCamelChunkReplace),
      ins |-> hasCamelChunkInsertionOrRemoval(firstTok, name, fl.maxCamelChunkInsert),
      delta |-> /\ ToLower(name) # << >> /\ ToLower(firstTok) # << >>
                /\ hasSmallChunkDifference(ToLower(firstTok), ToLower(name), maxChunkDiffSize) ]

\* one similarity statement of checkSymbol on the locals match, docLower and
\* nameLower (lowered: the two strings have been assigned). Statement 1 is
\* the edit-distance block, which assigns match and the lower-cased strings;
\* statements 2 to 7 are the "if !match && ..." tests in the order of the
\* source, the last one reading the lower-cased strings.
cascadeStep(b, s, f) ==
    IF b = 1
    THEN IF f.pre THEN [ match |-> f.dist, lowered |-> TRUE ] ELSE s
    ELSE IF s.match THEN s
    ELSE IF b = 2 THEN [ s EXCEPT !.match = f.swap ]
    ELSE IF b = 3 THEN [ s EXCEPT !.match = f.fold ]
    ELSE IF b = 4 THEN [ s EXCEPT !.match = f.word ]
    ELSE IF b = 5 THEN [ s EXCEPT !.match = f.repl ]
    ELSE IF b = 6 THEN [ s EXCEPT !.match = f.ins ]
    ELSE IF b = 7 THEN [ s EXCEPT !.match = s.lowered /\ f.delta ]
    ELSE s

\* the statements executed one after the other in a given order, from
\* match = false and empty lower-cased strings
RECURSIVE cascadeFrom(_, _, _)
cascadeFrom(order, s, f) ==
    IF order = << >> THEN s.match
    ELSE cascadeFrom(Tail(order), cascadeStep(Head(order), s, f), f)
cascadeInOrder(order, f) == cascadeFrom(order, [ match |-> FALSE, lowered |-> FALSE ], f)
SourceOrder == << 1, 2, 3, 4, 5, 6, 7 >>

\* the diagnostic checkSymbol reports
diagnostic(t, name, declPos) ==
    [ Pos |-> declPos,
      Message |-> Message(t.tok, name),
      SuggestedFixes |->
          IF t.start # NoPos /\ t.end # NoPos /\ t.start < t.end
          THEN << [ Pos |-> t.start, End |-> t.end, NewText |-> name ] >>
          ELSE << >> ]

\* checkSymbol with the three reads of maxDistFlag made explicit: the
\* diagnostics it passes to pass.Report
checkSymbolReads(c, fl, doc, name, exported, kind, declPos, mdPre, mdCmp, mdWord) ==
    LET Decide(t) ==
            IF tokenTooShort(t.tok) THEN << >>
            ELSE IF narrativeFilter(c, fl, t, name, kind) THEN << >>
            ELSE IF ~similar(fl, t.tok, name, mdPre, mdCmp, mdWord) THEN << >>
            ELSE << diagnostic(t, name, declPos) >>
    IN  IF ~passesExportGate(fl, name, doc, exported) THEN << >>
        ELSE Decide(firstIdentifierLike(doc))

\* checkSymbol compares the comment token against the provided symbol.
checkSymbol(c, fl, doc, name, exported, kind, declPos) ==
    checkSymbolReads(c, fl, doc, name, exported, kind, declPos,
                     fl.maxDist, fl.maxDist, fl.maxDist)

\* checkInterfaceMethods inspects each interface method doc comment: the
\* calls of checkSymbol it makes, in order
RECURSIVE checkInterfaceMethods(_)
checkInterfaceMethods(methods) ==
    IF methods = << >> THEN << >>
    ELSE (IF Head(methods).doc = << >> THEN << >>
          ELSE << [ doc |-> Head(methods).doc, name |-> Head(methods).name,
                    kind |-> kindFunc, pos |-> Head(methods).pos ] >>)
         \o checkInterfaceMethods(Tail(methods))

\* The callback of run for one declaration node: the calls of checkSymbol
\* it makes, in order.  A node is a function declaration or a type
\* declaration; the methods of a type node are the methods of its interface
\* type (none for other types).
runCalls(fl, n) ==
    IF ~fl.includeGenerated /\ n.generated THEN << >>
    ELSE IF n.decl = "func"
         THEN IF n.doc = << >> THEN << >>
              ELSE << [ doc |-> n.doc, name |-> n.name, kind |-> kindFunc, pos |-> n.pos ] >>
    ELSE (IF fl.includeTypes /\ n.doc # << >>
          THEN << [ doc |-> n.doc, name |-> n.name, kind |-> kindType, pos |-> n.pos ] >>
          ELSE << >>)
         \o (IF fl.includeInterfaceMethods THEN checkInterfaceMethods(n.methods) ELSE << >>)

\* the diagnostics reported by a sequence of checkSymbol calls
RECURSIVE reportAll(_, _, _)
reportAll(c, fl, calls) ==
    IF calls = << >> THEN << >>
    ELSE checkSymbol(c, fl, Head(calls).doc, Head(calls).name, IsExported(Head(calls).name),
                     Head(calls).kind, Head(calls).pos)
         \o reportAll(c, fl, Tail(calls))

\* the diagnostics the callback of run reports for one declaration node
runNode(c, fl, n) == reportAll(c, fl, runCalls(fl, n))

----------------------------------------------------------------------------
(* The run-time range checks of the indexing and slicing expressions: each *)
(* ...Panics operator follows the control flow of the function it is named *)
(* after and is TRUE when an expression the call evaluates is out of range *)

\* identifierFromLine: line[i:], line[i:] after the skip, line[tokenStart:tokenStart+wordLen]
RECURSIVE identifierLoopPanics(_, _)
identifierLoopPanics(line, i) ==
    LET Word(tokenStart, wordLen, tw) ==
            IF tw.s = << >> \/ isSkippableLabel(labelOf(tw.s))
            THEN identifierLoopPanics(line, tokenStart + wordLen)
            ELSE FALSE
        Cut(tokenStart, wordLen) ==
            IF ~SliceInRange(line, tokenStart, tokenStart + wordLen) THEN TRUE
            ELSE Word(tokenStart, wordLen, trimWord(Slice(line, tokenStart, tokenStart + wordLen)))
        Measure(tokenStart, wl) ==
            Cut(tokenStart, IF wl = -1 THEN Len(line) - tokenStart ELSE wl)
        Skip(skip) ==
            IF skip = -1 THEN FALSE
            ELSE IF ~SliceInRange(line, i + skip, Len(line)) THEN TRUE
            ELSE Measure(i + skip, IndexIn(Drop(line, i + skip), DocSpaceSet))
    IN  IF i >= Len(line) THEN FALSE
        ELSE IF ~SliceInRange(line, i, Len(line)) THEN TRUE
        ELSE Skip(IndexNotIn(Drop(line, i), DocSpaceSet))

\* firstIdentifierLike: cg.List[0], then identifierFromLine on the first line
firstIdentifierLikePanics(cg) ==
    LET Line(fl) == fl.line # << >> /\ identifierLoopPanics(fl.line, 0)
    IN  IF cg = << >> THEN FALSE
        ELSE ~IndexInRange(cg, 0) \/ Line(firstDocLine(cg[1].Text))

\* docFirstWordHasDot: fields[0], word[:idx]
docFirstWordHasDotPanics(line) ==
    LET Dot(word, idx) == idx # -1 /\ ~SliceInRange(word, 0, idx)
        First(fields) ==
            IF Len(fields) = 0 THEN FALSE
            ELSE IF ~IndexInRange(fields, 0) THEN TRUE
            ELSE Dot(fields[1], IndexIn(fields[1], {"."}))
    IN  IF line = << >> THEN FALSE ELSE First(Fields(line))

\* isSectionHeader and isNarrativeSentenceIntro: fields[0], fields[1];
\* entered is the guard at the head of the function
secondWordPanics(entered, firstTok, line) ==
    LET Test(fields) ==
            IF Len(fields) < 2 THEN FALSE
            ELSE IF ~IndexInRange(fields, 0) THEN TRUE
            ELSE EqualFold(firstTok, stripWordToken(fields[1])) /\ ~IndexInRange(fields, 1)
    IN  IF ~entered THEN FALSE ELSE Test(Fields(line))

\* looksLikeSimpleWord: runes[1:], runes[0]
looksLikeSimpleWordPanics(word) ==
    LET Simple(runes) ==
            IF (\E i \in 1..Len(runes) : ~IsLetter(runes[i])) \/ Len(runes) = 1 THEN FALSE
            ELSE ~SliceInRange(runes, 1, Len(runes)) \/ ~IndexInRange(runes, 0)
    IN  IF word = << >> THEN FALSE ELSE Simple(Runes(word))

\* containsWildcardToken: lowerLine[len(lowerToken)]
containsWildcardTokenPanics(token, line) ==
    LET After(lowerLine, lowerToken) ==
            readsByteAfterToken(lowerLine, lowerToken)
                /\ ~IndexInRange(lowerLine, Len(lowerToken))
    IN  IF \E i \in 1..Len(token) : token[i] \in { "*", "?", "[", "]" } THEN FALSE
        ELSE IF token = << >> \/ line = << >> THEN FALSE
        ELSE After(ToLower(line), ToLower(token))

\* isNarrativeVerbForm: lowerWord[:len(lowerWord)-1]
isNarrativeVerbFormPanics(word, funcName) ==
    IF Len(word) < 2 \/ ~HasSuffix(ToLower(word), << "s" >>) THEN FALSE
    ELSE ~SliceInRange(ToLower(word), 0, Len(word) - 1)

\* matchesAllowedPrefixVariant: symbol[len(prefix):], for each prefix tried
prefixVariantPanics(rawPrefix, docToken, symbol) ==
    LET Variant(prefix) ==
            IF prefix = << >> \/ Len(symbol) <= Len(prefix) THEN FALSE
            ELSE IF ~HasPrefix(ToLower(symbol), ToLower(prefix)) THEN FALSE
            ELSE ~SliceInRange(symbol, Len(prefix), Len(symbol))
    IN  Variant(Trim(rawPrefix, SpaceSet))

matchesAllowedPrefixVariantPanics(c, docToken, symbol) ==
    \E k \in 1..Len(c.allowedPrefixes) :
        /\ \A j \in 1..(k - 1) : ~prefixVariant(c.allowedPrefixes[j], docToken, symbol)
        /\ prefixVariantPanics(c.allowedPrefixes[k], docToken, symbol)

\* commonPrefixLength: a[i], b[i] up to the first difference
commonPrefixLengthPanics(a, b) ==
    \E i \in 0..Min(commonPrefixLength(a, b), Min(Len(a), Len(b)) - 1) :
        ~IndexInRange(a, i) \/ ~IndexInRange(b, i)

\* commonSuffixLength: a[ia], b[ib] while ia >= 0 && ib >= 0
commonSuffixLengthPanics(a, b) ==
    \E k \in 0..commonSuffixLength(a, b) :
        /\ Len(a) - 1 - k >= 0 /\ Len(b) - 1 - k >= 0
        /\ (~IndexInRange(a, Len(a) - 1 - k) \/ ~IndexInRange(b, Len(b) - 1 - k))

\* damerauLevenshtein: ra[i-1], rb[j-1], ra[i-2], rb[j-2] and the cells of d
damerauLevenshteinPanics(a, b) ==
    LET Cells(ra, rb) ==
            \E i \in 1..Len(ra), j \in 1..Len(rb) :
                \/ ~IndexInRange(ra, i - 1) \/ ~IndexInRange(rb, j - 1)
                \/ ~(i - 1 \in 0..Len(ra) /\ j - 1 \in 0..Len(rb))
                \/ (i > 1 /\ j > 1 /\ (~IndexInRange(rb, j - 2) \/ ~IndexInRange(ra, i - 2)))
    IN  Cells(Runes(a), Runes(b))

\* passesDistanceGate: the shared prefix and suffix
passesDistanceGatePanics(doc, name, dist) ==
    IF dist <= 0 \/ Len(doc) < minDocTokenLen + dist \/ Len(name) < minDocTokenLen THEN FALSE
    ELSE commonPrefixLengthPanics(doc, name) \/ commonSuffixLengthPanics(doc, name)

\* wordClose: the distance, then the shared prefix and suffix
wordClosePanics(a, b, maxDist) ==
    LET Close(al, bl) ==
            IF al = bl THEN FALSE
            ELSE IF damerauLevenshteinPanics(al, bl) THEN TRUE
            ELSE IF damerauLevenshtein(al, bl) > maxDist + 1 \/ Min(Len(al), Len(bl)) <= 1
                 THEN FALSE
            ELSE commonPrefixLengthPanics(al, bl) \/ commonSuffixLengthPanics(al, bl)
    IN  IF a = << >> \/ b = << >> THEN FALSE ELSE Close(ToLower(a), ToLower(b))

\* splitCamelWords: rawParts[i], rawParts[i+1]
splitCamelWordsPanics(str) ==
    LET Parts(rawParts) ==
            \E i \in 0..(Len(rawParts) - 1) :
                \/ ~IndexInRange(rawParts, i)
                \/ (i + 1 < Len(rawParts) /\ ~IndexInRange(rawParts, i + 1))
        Split(s) ==
            IF s = << >> \/ ~ValidString(s) THEN FALSE
            ELSE Parts(SelectSeq(camelcaseSplit(s), LAMBDA p : p # << >>))
    IN  Split(SelectSeq(str, LAMBDA c : c # "_"))

\* isCamelSwapVariant: docWords[i], symWords[i], diffs[diffCount]
isCamelSwapVariantPanics(docToken, symbol) ==
    LET Compare(docWords, symWords) ==
            IF Len(docWords) # Len(symWords) \/ Len(docWords) < 2 THEN FALSE
            ELSE \/ \E i \in 0..(Len(docWords) - 1) : ~IndexInRange(symWords, i)
                 \/ \E diffCount \in 0..(Cardinality(Mismatches(docWords, symWords)) - 1) :
                        diffCount # 2 /\ diffCount \notin 0..1
    IN  IF splitCamelWordsPanics(docToken) \/ splitCamelWordsPanics(symbol) THEN TRUE
        ELSE Compare(splitCamelWords(docToken), splitCamelWords(symbol))

\* hasSimilarCamelWord: wordClose on the differing chunk
hasSimilarCamelWordPanics(docToken, symbol, maxDist) ==
    LET Compare(docWords, symWords) ==
            IF Len(docWords) = 0 \/ Len(docWords) # Len(symWords) THEN FALSE
            ELSE \E i \in Mismatches(docWords, symWords) :
                     wordClosePanics(docWords[i], symWords[i], maxDist)
    IN  Compare(splitCamelWords(docToken), splitCamelWords(symbol))

\* camelSubsequence: longer[pos:]
RECURSIVE camelSubsequenceFromPanics(_, _, _, _, _, _)
camelSubsequenceFromPanics(shorter, longer, maxSkips, k, pos, skips) ==
    LET At(idx) ==
            IF idx = -1 \/ skips + idx > maxSkips THEN FALSE
            ELSE camelSubsequenceFromPanics(shorter, longer, maxSkips, k + 1,
                                            pos + idx + 1, skips + idx)
    IN  IF k > Len(shorter) THEN FALSE
        ELSE IF ~SliceInRange(longer, pos, Len(longer)) THEN TRUE
        ELSE At(IndexFrom(longer, pos, shorter[k]))

hasCamelChunkInsertionOrRemovalPanics(docToken, symbol, maxChunkDiff) ==
    LET Compare(docWords, symWords, diff) ==
            IF Len(docWords) = 0 \/ Len(symWords) = 0 THEN FALSE
            ELSE IF diff = 0 \/ diff > maxChunkDiff THEN FALSE
            ELSE IF Len(docWords) > Len(symWords)
                 THEN camelSubsequenceFromPanics(symWords, docWords, maxChunkDiff, 1, 0, 0)
            ELSE camelSubsequenceFromPanics(docWords, symWords, maxChunkDiff, 1, 0, 0)
        Split(docWords, symWords) ==
            Compare(docWords, symWords, abs(Len(docWords) - Len(symWords)))
    IN  IF maxChunkDiff <= 0 THEN FALSE
        ELSE Split(splitCamelWords(docToken), splitCamelWords(symbol))

\* hasSmallChunkDifference: a[:i], a[i+diff:] until the first i that fits
RECURSIVE hasSmallChunkDifferencePanics(_, _, _)
hasSmallChunkDifferencePanics(a, b, maxChunk) ==
    IF maxChunk <= 0 \/ Len(a) = Len(b) THEN FALSE
    ELSE IF Len(a) < Len(b) THEN hasSmallChunkDifferencePanics(b, a, maxChunk)
    ELSE LET diff == Len(a) - Len(b)
             fits(i) == HasPrefix(b, Take(a, i)) /\ HasSuffix(b, Drop(a, i + diff))
         IN  IF diff > maxChunk THEN FALSE
             ELSE \E i \in 0..(Len(a) - diff) :
                      /\ \A j \in 0..(i - 1) : ~fits(j)
                      /\ \/ ~SliceInRange(a, 0, i)
                         \/ (HasPrefix(b, Take(a, i)) /\ ~SliceInRange(a, i + diff, Len(a)))

\* the similarity decision of checkSymbol
\* the branches of checkSymbol after the distance branch, in order
cascadePanics(fl, firstTok, name, docLower, nameLower, maxDist) ==
    IF isCamelSwapVariantPanics(firstTok, name) THEN TRUE
    ELSE IF isCamelSwapVariant(firstTok, name) THEN FALSE
    ELSE IF EqualFold(firstTok, name) /\ firstTok # name THEN FALSE
    ELSE IF hasSimilarCamelWordPanics(firstTok, name, maxDist) THEN TRUE
    ELSE IF hasSimilarCamelWord(firstTok, name, maxDist) THEN FALSE
    ELSE IF hasCamelChunkReplacement(firstTok, name, fl.maxCamelChunkReplace) THEN FALSE
    ELSE IF hasCamelChunkInsertionOrRemovalPanics(firstTok, name, fl.maxCamelChunkInsert)
         THEN TRUE
    ELSE IF hasCamelChunkInsertionOrRemoval(firstTok, name, fl.maxCamelChunkInsert) THEN FALSE
    ELSE nameLower # << >> /\ docLower # << >>
            /\ hasSmallChunkDifferencePanics(docLower, nameLower, maxChunkDiffSize)

\* the similarity decision of checkSymbol
similarPanics(fl, firstTok, name, maxDist) ==
    LET Gate(pre, docLower, nameLower, d) ==
            IF pre /\ d > 0 /\ d <= maxDist /\ passesDistanceGatePanics(docLower, nameLower, d)
            THEN TRUE
            ELSE IF pre /\ d > 0 /\ d <= maxDist /\ passesDistanceGate(docLower, nameLower, d)
                 THEN FALSE
            ELSE cascadePanics(fl, firstTok, name, docLower, nameLower, maxDist)
        Distance(pre, docLower, nameLower) ==
            IF pre /\ damerauLevenshteinPanics(docLower, nameLower) THEN TRUE
            ELSE Gate(pre, docLower, nameLower,
                      IF pre THEN damerauLevenshtein(docLower, nameLower) ELSE 0)
        Lowered(pre) ==
            Distance(pre, IF pre THEN ToLower(firstTok) ELSE << >>,
                          IF pre THEN ToLower(name) ELSE << >>)
    IN  Lowered(lengthPreCheck(firstTok, name, maxDist))

\* the narrative filters of checkSymbol, in order
narrativeFilterPanics(c, fl, t, name, kind) ==
    IF docFirstWordHasDotPanics(t.line) THEN TRUE
    ELSE IF docFirstWordHasDot(t.line) \/ isAllowedLeadingWord(c, t.tok) THEN FALSE
    ELSE IF matchesAllowedPrefixVariantPanics(c, t.tok, name) THEN TRUE
    ELSE IF matchesAllowedPrefixVariant(c, t.tok, name) THEN FALSE
    ELSE IF secondWordPanics(t.tok # << >> /\ t.line # << >>, t.tok, t.line) THEN TRUE
    ELSE IF isSectionHeader(t.tok, t.line) THEN FALSE
    ELSE IF looksLikeSimpleWordPanics(t.tok) THEN TRUE
    ELSE IF secondWordPanics(looksLikeSimpleWord(t.tok) /\ t.line # << >>, t.tok, t.line)
         THEN TRUE
    ELSE IF isNarrativeSentenceIntro(t.tok, t.line) THEN FALSE
    ELSE IF containsWildcardTokenPanics(t.tok, t.line) THEN TRUE
    ELSE IF containsWildcardToken(t.tok, t.line) THEN FALSE
    ELSE kind = kindFunc /\ isNarrativeVerbFormPanics(t.tok, name)

\* checkSymbol: TRUE when the call stops in a run-time panic
checkSymbolPanics(c, fl, doc, name, exported, kind) ==
    LET Decide(t) ==
            IF tokenTooShort(t.tok) THEN FALSE
            ELSE IF narrativeFilterPanics(c, fl, t, name, kind) THEN TRUE
            ELSE IF narrativeFilter(c, fl, t, name, kind) THEN FALSE
            ELSE similarPanics(fl, t.tok, name, fl.maxDist)
    IN  IF ~passesExportGate(fl, name, doc, exported) THEN FALSE
        ELSE IF firstIdentifierLikePanics(doc) THEN TRUE
        ELSE Decide(firstIdentifierLike(doc))

\* the callback of run: TRUE when a checkSymbol call it makes panics
\* TRUE when a call of checkSymbol made for the node panics
runNodePanics(c, fl, n) ==
    LET Some(calls) ==
            \E k \in 1..Len(calls) :
                checkSymbolPanics(c, fl, calls[k].doc, calls[k].name,
                                  IsExported(calls[k].name), calls[k].kind)
    IN  Some(runCalls(fl, n))

----------------------------------------------------------------------------
(* The declarations under analysis                                         *)

\* a comment group of one comment
Doc(slash, text) == << [ Slash |-> slash, Text |-> text ] >>

FuncNode(doc, name, pos) ==
    [ decl |-> "func", name |-> name, doc |-> doc, pos |-> pos,
      generated |-> FALSE, methods |-> << >> ]

\* Declarations in the style of the repository's testdata and README.
CuratedFuncs ==
    { [ decl |-> "func", name |-> << "s", "e", "r", "v", "e", "H", "T", "T", "P" >>, doc |-> Doc(1, << "/", "/", " ", "s", "e", "r", "v", "e", "H", "t", "p", "p", " ", "h", "a", "n", "d", "l", "e", "s", " ", "w", "e", "b", "s", "o", "c", "k", "e", "t", " ", "t", "r", "a", "f", "f", "i", "c", "." >>), pos |-> 7, generated |-> FALSE, methods |-> << >> ],
      [ decl |-> "func", name |-> << "n", "e", "w", "H", "T", "T", "P", "C", "l", "i", "e", "n", "t" >>, doc |-> Doc(1, << "/", "/", " ", "C", "r", "e", "a", "t", "e", "s", " ", "a", " ", "n", "e", "w", " ", "H", "T", "T", "P", " ", "c", "l", "i", "e", "n", "t" >>), pos |-> 7, generated |-> FALSE, methods |-> << >> ],
      [ decl |-> "func", name |-> << "S", "e", "r", "v", "e", "H", "T", "T", "P" >>, doc |-> Doc(1, << "/", "/", " ", "S", "e", "r", "v", "e", "r", "H", "T", "T", "P", " ", "h", "a", "n", "d", "l", "e", "s", " ", "i", "n", "c", "o", "m", "i", "n", "g" >>), pos |-> 7, generated |-> FALSE, methods |-> << >> ],
      [ decl |-> "func", name |-> << "d", "e", "e", "p", "E", "q", "u", "a", "l" >>, doc |-> Doc(1, << "/", "/", " ", "r", "e", "f", "l", "e", "c", "t", ".", "D", "e", "e", "p", "E", "q", "u", "a", "l", " ", "d", "o", "e", "s", "n", "'", "t", " ", "w", "o", "r", "k" >>), pos |-> 7, generated |-> FALSE, methods |-> << >> ],
      [ decl |-> "func", name |-> << "n", "o", "t", "i", "f", "y" >>, doc |-> Doc(1, << "/", "/", " ", "n", "o", "t", "e", ":", " ", "h", "e", "l", "p", "e", "r", " ", "f", "o", "r", " ", "t", "e", "s", "t", "s" >>), pos |-> 7, generated |-> FALSE, methods |-> << >> ],
      [ decl |-> "func", name |-> << "o", "p", "T", "h", "i", "n", "g" >>, doc |-> Doc(1, << "/", "/", " ", "T", "h", "i", "n", "g", " ", "o", "p", "e", "r", "a", "t", "e", "s", " ", "o", "n", " ", "t", "h", "e", " ", "U", "I" >>), pos |-> 7, generated |-> FALSE, methods |-> << >> ],
      [ decl |-> "func", name |-> << "g", "e", "t", "R", "e", "a", "d", "y", "P", "o", "d", "s" >>, doc |-> Doc(1, << "/", "/", " ", "g", "e", "t", "P", "o", "d", "s", "R", "e", "a", "d", "y", " ", "r", "e", "t", "u", "r", "n", "s" >>), pos |-> 7, generated |-> FALSE, methods |-> << >> ],
      [ decl |-> "func", name |-> << "c", "o", "n", "f", "i", "g", "u", "r", "e" >>, doc |-> Doc(1, << "/", "/", " ", "c", "o", "n", "i", "f", "g", "u", "r", "e", " ", "s", "e", "t", "s", " ", "u", "p", " ", "t", "h", "e", " ", "a", "p", "p", "l", "i", "c", "a", "t", "i", "o", "n" >>), pos |-> 7, generated |-> FALSE, methods |-> << >> ],
      [ decl |-> "func", name |-> << "c", "o", "n", "f", "i", "g", "u", "r", "e" >>, doc |-> Doc(1, << "/", "/", " ", "c", "o", "n", "f", "g", "u", "r", "e", " ", "s", "e", "t", "s", " ", "u", "p", " ", "t", "h", "e", " ", "a", "p", "p", "l", "i", "c", "a", "t", "i", "o", "n" >>), pos |-> 7, generated |-> FALSE, methods |-> << >> ],
      [ decl |-> "func", name |-> << "t", "o", "d", "o" >>, doc |-> Doc(1, << "/", "/", " ", "t", "o", "o", "d", " ", "t", "o", "d", "o", "o", " ", "i", "s", " ", "p", "e", "n", "d", "i", "n", "g" >>), pos |-> 7, generated |-> FALSE, methods |-> << >> ],
      [ decl |-> "func", name |-> << "c", "a", "f", "C3", "A9" >>, doc |-> Doc(1, << "/", "/", " ", "c", "a", "f", "e", " ", "b", "r", "e", "w", "s" >>), pos |-> 7, generated |-> FALSE, methods |-> << >> ],
      [ decl |-> "func", name |-> << "s", "e", "r", "v", "e", "H", "T", "T", "P" >>, doc |-> Doc(1, << "/", "/", " ", "S", "e", "r", "v", "e", "h", "t", "t", "p", " ", "h", "a", "n", "d", "l", "e", "s" >>), pos |-> 7, generated |-> FALSE, methods |-> << >> ],
      [ decl |-> "func", name |-> << "i", "n", "i", "t" >>, doc |-> Doc(1, << "/", "/", " ", "I", "n", "i", "t", " ", "t", "h", "e", " ", "s", "t", "a", "t", "e" >>), pos |-> 7, generated |-> FALSE, methods |-> << >> ],
      [ decl |-> "func", name |-> << "r", "e", "a", "d", "s" >>, doc |-> Doc(1, << "/", "/", " ", "R", "e", "a", "d", "s", " ", "e", "v", "e", "r", "y", "t", "h", "i", "n", "g" >>), pos |-> 7, generated |-> FALSE, methods |-> << >> ],
      [ decl |-> "func", name |-> << "s", "e", "r", "v", "e", "H", "H", "T", "P", "B", "l", "o", "c", "k" >>, doc |-> Doc(1, << "/", "*", "*", "\n", " ", "*", " ", "S", "e", "r", "v", "e", "H", "T", "T", "P", "B", "l", "o", "c", "k", " ", "h", "a", "n", "d", "l", "e", "s", " ", "r", "e", "q", "u", "e", "s", "t", "s", "\n", " ", "*", "/" >>), pos |-> 7, generated |-> FALSE, methods |-> << >> ],
      [ decl |-> "func", name |-> << "r", "e", "a", "d", "A", "l", "l" >>, doc |-> Doc(1, << "/", "/", " ", "r", "e", "a", "d", " ", "r", "e", "a", "d", "s", " ", "e", "v", "e", "r", "y", "t", "h", "i", "n", "g", "." >>), pos |-> 7, generated |-> FALSE, methods |-> << >> ],
      [ decl |-> "func", name |-> << "s", "e", "r", "v", "e", "H", "T", "T", "P", "v", "1" >>, doc |-> Doc(1, << "/", "/", " ", "s", "e", "r", "v", "e", "H", "T", "T", "P", "*", " ", "h", "a", "n", "d", "l", "e", "r", "s" >>), pos |-> 7, generated |-> FALSE, methods |-> << >> ],
      [ decl |-> "func", name |-> << "p", "a", "r", "s", "e", "r" >>, doc |-> Doc(1, << "/", "/", " ", "P", "a", "r", "s", "e", "r", " ", "h", "e", "l", "p", "e", "r", "s" >>), pos |-> 7, generated |-> FALSE, methods |-> << >> ],
      [ decl |-> "func", name |-> << "p", "a", "r", "s", "e", "r" >>, doc |-> Doc(1, << "/", "/", " ", "p", "a", "r", "s", "e", "r", "s", " ", "t", "h", "e", " ", "i", "n", "p", "u", "t" >>), pos |-> 7, generated |-> FALSE, methods |-> << >> ],
      [ decl |-> "func", name |-> << "e", "m", "p", "t", "y" >>, doc |-> Doc(1, << "/", "/" >>), pos |-> 7, generated |-> FALSE, methods |-> << >> ],
      [ decl |-> "func", name |-> << "a", "b", "c" >>, doc |-> Doc(1, << "/", "/", " ", "a", "b", " ", "i", "s", " ", "s", "h", "o", "r", "t" >>), pos |-> 7, generated |-> FALSE, methods |-> << >> ],
      [ decl |-> "func", name |-> << "N", "e", "w", "H", "a", "n", "d", "l", "e", "r" >>, doc |-> Doc(1, << "/", "/", " ", "n", "e", "w", "H", "a", "n", "d", "l", "e", "r", " ", "b", "u", "i", "l", "d", "s" >>), pos |-> 7, generated |-> FALSE, methods |-> << >> ] }

\* the same declarations as type declarations, in generated files, and as the
\* single documented method of an undocumented interface type
AsType(n) == [ n EXCEPT !.decl = "type" ]
AsGenerated(n) == [ n EXCEPT !.generated = TRUE ]
AsMethod(n) ==
    [ decl |-> "type", name |-> << "i", "f", "a", "c", "e" >>, doc |-> << >>, pos |-> n.pos + 1,
      generated |-> n.generated,
      methods |-> << [ name |-> n.name, doc |-> n.doc, pos |-> n.pos ] >> ]

\* variants are taken of the declarations with these names
VariantSeeds ==
    { n \in CuratedFuncs : n.name \in { << "s", "e", "r", "v", "e", "H", "T", "T", "P" >>, << "S", "e", "r", "v", "e", "H", "T", "T", "P" >>, << "g", "e", "t", "R", "e", "a", "d", "y", "P", "o", "d", "s" >>, << "c", "o", "n", "f", "i", "g", "u", "r", "e" >> } }

\* a function without a doc comment, a comment group whose first comment is
\* empty, and an interface type documented together with one of its methods
UndocumentedFunc == FuncNode(<< >>, << "h", "e", "l", "p", "e", "r" >>, 7)
EmptyFirstComment ==
    FuncNode(<< [ Slash |-> 1, Text |-> << "/", "/" >> ], [ Slash |-> 4, Text |-> << "/", "/", " ", "s", "e", "r", "v", "e", "H", "t", "p", "p", " ", "h", "a", "n", "d", "l", "e", "s" >> ] >>,
             << "s", "e", "r", "v", "e", "H", "T", "T", "P" >>, 30)
DocumentedInterface ==
    [ decl |-> "type", name |-> << "h", "a", "n", "d", "l", "e", "r" >>, doc |-> Doc(1, << "/", "/", " ", "h", "a", "n", "d", "l", "r", " ", "s", "e", "r", "v", "e", "s", " ", "r", "e", "q", "u", "e", "s", "t", "s" >>),
      pos |-> 30, generated |-> FALSE,
      methods |-> << [ name |-> << "c", "o", "n", "f", "i", "g", "u", "r", "e" >>, doc |-> Doc(50, << "/", "/", " ", "c", "o", "n", "f", "g", "u", "r", "e", " ", "a", "p", "p", "l", "i", "e", "s", " ", "i", "t" >>), pos |-> 75 ],
                     [ name |-> << "c", "l", "o", "s", "e" >>, doc |-> << >>, pos |-> 90 ] >> ]

CuratedNodes ==
    CuratedFuncs
      \cup { UndocumentedFunc, EmptyFirstComment, DocumentedInterface }
      \cup { AsType(n) : n \in VariantSeeds }
      \cup { AsGenerated(n) : n \in VariantSeeds }
      \cup { AsMethod(n) : n \in VariantSeeds }

\* ---- every lower-case identifier over two letters, documented by "// <token>"

MaxTokLen == 5
MaxNameLen == 5
MaxDist == 2

IdAlphabet == { "a", "b" }
SeqsUpTo(alphabet, n) == UNION { [ 1..k -> alphabet ] : k \in 0..n }

PairTokens == { t \in SeqsUpTo(IdAlphabet, MaxTokLen) : Len(t) >= minDocTokenLen }
PairNames == SeqsUpTo(IdAlphabet, MaxNameLen) \ { << >> }
PairNodes ==
    { FuncNode(Doc(1, << "/", "/", " " >> \o t), n, 7) : t \in PairTokens, n \in PairNames }

\* ---- every comment made of at most MaxAtoms atoms, over a few names

MaxAtoms == 3

DocAtoms == { << " " >>, << "\n" >>, << "*" >>, << ":" >>, << "." >>, << "&" >>,
              << "t", "o", "d", "o" >>, << "a", "B", "a" >>, << "C3", "A9" >> }

RECURSIVE Concat(_)
Concat(ss) == IF ss = << >> THEN << >> ELSE Head(ss) \o Concat(Tail(ss))

DocBodies == { Concat(as) : as \in SeqsUpTo(DocAtoms, MaxAtoms) }

\* 0-based index of the first "*/" in s, or -1
IndexCloser(s) ==
    IF \E i \in 1..(Len(s) - 1) : s[i] = "*" /\ s[i + 1] = "/"
    THEN (CHOOSE i \in 1..(Len(s) - 1) :
              /\ s[i] = "*" /\ s[i + 1] = "/"
              /\ \A j \in 1..(i - 1) : ~(s[j] = "*" /\ s[j + 1] = "/")) - 1
    ELSE -1

\* the comments the Go scanner can produce from these bodies: a line comment
\* holds no newline, a block comment ends at its first "*/"
RawComments ==
    { << "/", "/" >> \o b : b \in { b \in DocBodies : "\n" \notin { b[i] : i \in 1..Len(b) } } }
      \cup { << "/", "*" >> \o b \o << "*", "/" >> :
                 b \in { b \in DocBodies : IndexCloser(b \o << "*", "/" >>) = Len(b) } }

DocNames == { << "a", "b", "a" >>, << "t", "o", "d", "o" >> }
DocNodes == { FuncNode(Doc(4, c), n, 7) : c \in RawComments, n \in DocNames }

----------------------------------------------------------------------------
(* The driver: flag setting, run, the visit of a declaration, and the      *)
(* application of a suggested fix followed by a second visit               *)

VARIABLES
    corpus,     \* which set of declarations the analyzed package holds
    flags,      \* the package-level flag variables
    cfg,        \* the matchConfig built by run
    stage,      \* "setup", "run", "checked", "fixed", "rechecked", "panicked"
    node,       \* the declaration node being visited
    reported,   \* the diagnostics passed to pass.Report for node
    pc,         \* position of a stepwise checkSymbol call
    reads,      \* the values of maxDistFlag that the stepwise call has read
    call,       \* a function called on its own, as the unit tests do: its name and arguments
    ret         \* the value that call returned

vars == << corpus, flags, cfg, stage, node, reported, pc, reads, call, ret >>

NoNode ==
    [ decl |-> "none", name |-> << >>, doc |-> << >>, pos |-> NoPos,
      generated |-> FALSE, methods |-> << >> ]
NoCfg == [ allowedLeadingWords |-> {}, allowedPrefixes |-> << >> ]

Nodes(c) ==
    IF c = "curated" THEN CuratedNodes
    ELSE IF c = "pairs" THEN PairNodes
    ELSE DocNodes

\* the flag values the driver may set for a corpus: << flag, value >>
MaxFlagSets == 2

BoolFlags == { "includeUnexported", "includeExported", "includeTypes", "includeGenerated",
               "includeInterfaceMethods", "skipPlainWordCamel" }
Settings(c) ==
    IF c = "curated"
    THEN { << f, v >> : f \in BoolFlags, v \in BOOLEAN }
           \cup { << "maxDist", v >> : v \in 0..MaxDist }
           \cup { << f, v >> : f \in { "maxCamelChunkInsert", "maxCamelChunkReplace" }, v \in 0..1 }
           \cup { << "allowedLeadingWords", << >> >>, << "allowedPrefixes", << "a", "s", "m", ",", "o", "p" >> >> }
    ELSE IF c = "pairs"
    THEN { << "maxDist", v >> : v \in 0..MaxDist }
    ELSE { << "allowedPrefixes", << "a", ",", "t", "o" >> >>, << "skipPlainWordCamel", FALSE >> }

\* the number of flags that differ from their initial values
Changed(fl) == Cardinality({ f \in DOMAIN fl : fl[f] # DefaultFlags[f] })

\* no function is under test during a run of the analyzer
NoCall == [ fn |-> "none" ]
NoRet == << >>

InitOf(c) ==
    /\ corpus = c
    /\ flags = DefaultFlags
    /\ cfg = NoCfg
    /\ stage = "setup"
    /\ node = NoNode
    /\ reported = << >>
    /\ pc = "idle"
    /\ reads = << >>
    /\ call = NoCall
    /\ ret = NoRet

\* Analyzer.Flags.Set: one flag is given a value before a run
SetFlag ==
    /\ stage = "setup"
    /\ \E st \in Settings(corpus) :
          /\ flags[st[1]] # st[2]
          /\ Changed([ flags EXCEPT ![st[1]] = st[2] ]) <= MaxFlagSets
          /\ flags' = [ flags EXCEPT ![st[1]] = st[2] ]
    /\ UNCHANGED << call, ret, corpus, cfg, stage, node, reported, pc, reads >>

\* run begins: cfg := newMatchConfig()
StartRun ==
    /\ stage = "setup"
    /\ cfg' = newMatchConfig(flags)
    /\ stage' = "run"
    /\ UNCHANGED << call, ret, corpus, flags, node, reported, pc, reads >>

\* the Preorder callback of run on one declaration node: any declaration
\* of the package in a first run, the fixed declaration in the run that
\* follows the application of a fix
Visit ==
    /\ stage \in { "run", "fixed" }
    /\ \E n \in (IF stage = "run" THEN Nodes(corpus) ELSE { node }) :
          /\ node' = n
          /\ IF runNodePanics(cfg, flags, n)
             THEN stage' = "panicked" /\ reported' = << >>
             ELSE /\ stage' = (IF stage = "run" THEN "checked" ELSE "rechecked")
                  /\ reported' = runNode(cfg, flags, n)
    /\ UNCHANGED << call, ret, corpus, flags, cfg, pc, reads >>

\* the text edit of a suggested fix applied to the comment that holds it
applyEdit(cg, edit) ==
    [ k \in 1..Len(cg) |->
        LET lo == edit.Pos - cg[k].Slash
            hi == edit.End - cg[k].Slash
            text == cg[k].Text
        IN  IF 0 <= lo /\ lo <= hi /\ hi <= Len(text)
            THEN [ cg[k] EXCEPT !.Text = Take(text, lo) \o edit.NewText \o Drop(text, hi) ]
            ELSE cg[k] ]

applyFixMethod(m, edit) == [ m EXCEPT !.doc = applyEdit(m.doc, edit) ]

applyFix(n, edit) ==
    [ n EXCEPT !.doc = applyEdit(n.doc, edit),
               !.methods = [ k \in 1..Len(n.methods) |-> applyFixMethod(n.methods[k], edit) ] ]

\* the driver applies the suggested fix of the first diagnostic
ApplyFix ==
    /\ stage = "checked"
    /\ reported # << >>
    /\ reported[1].SuggestedFixes # << >>
    /\ node' = applyFix(node, reported[1].SuggestedFixes[1])
    /\ stage' = "fixed"
    /\ UNCHANGED << call, ret, corpus, flags, cfg, reported, pc, reads >>

\* the walk goes on to the next declaration
Continue ==
    /\ stage \in { "checked", "rechecked" }
    /\ stage' = "run"
    /\ node' = NoNode
    /\ reported' = << >>
    /\ UNCHANGED << call, ret, corpus, flags, cfg, pc, reads >>

\* run returns
EndRun ==
    /\ stage = "run"
    /\ pc = "idle"
    /\ stage' = "setup"
    /\ cfg' = NoCfg
    /\ UNCHANGED << call, ret, corpus, flags, node, reported, pc, reads >>

Next == SetFlag \/ StartRun \/ Visit \/ ApplyFix \/ Continue \/ EndRun

Init == InitOf("curated")
Spec == Init /\ [][Next]_vars

InitPairs == InitOf("pairs")
SpecPairs == InitPairs /\ [][Next]_vars

InitDocs == InitOf("docs")
SpecDocs == InitDocs /\ [][Next]_vars

----------------------------------------------------------------------------
(* One call of checkSymbol taken step by step, while another goroutine     *)
(* sets maxDistFlag: the call reads the package variable at the length     *)
(* pre-check, at the distance comparison and in wordClose                  *)

\* the function declarations run passes to checkSymbol
CheckedFuncs(c, fl) ==
    { n \in Nodes(c) : n.decl = "func" /\ n.doc # << >> /\ (fl.includeGenerated \/ ~n.generated) }

\* checkSymbol is entered: the export gate, the extraction and the filters
BeginCheck ==
    /\ stage = "run"
    /\ pc = "idle"
    /\ \E n \in CheckedFuncs(corpus, flags) :
          LET t == firstIdentifierLike(n.doc)
          IN  /\ node' = n
              /\ pc' = IF ~passesExportGate(flags, n.name, n.doc, IsExported(n.name)) THEN "done"
                       ELSE IF tokenTooShort(t.tok) THEN "done"
                       ELSE IF narrativeFilter(cfg, flags, t, n.name, kindFunc) THEN "done"
                       ELSE "pre"
    /\ reads' = << >>
    /\ reported' = << >>
    /\ UNCHANGED << call, ret, corpus, flags, cfg, stage >>

\* the value a site read, or -1 when the call did not pass the site
ReadAt(rs, site) ==
    IF \E i \in 1..Len(rs) : rs[i][1] = site
    THEN rs[CHOOSE i \in 1..Len(rs) : rs[i][1] = site][2]
    ELSE -1

\* lenDiff <= maxDistFlag+1 || lenDiff <= maxChunkDiffSize
ReadPre ==
    /\ pc = "pre"
    /\ reads' = Append(reads, << "pre", flags.maxDist >>)
    /\ pc' = IF lengthPreCheck(firstIdentifierLike(node.doc).tok, node.name, flags.maxDist)
             THEN "cmp" ELSE "word"
    /\ UNCHANGED << call, ret, corpus, flags, cfg, stage, node, reported >>

\* match = d > 0 && d <= maxDistFlag, then the distance gate
ReadCmp ==
    /\ pc = "cmp"
    /\ LET t == firstIdentifierLike(node.doc)
           docLower == ToLower(t.tok)
           nameLower == ToLower(node.name)
           d == damerauLevenshtein(docLower, nameLower)
       IN  /\ reads' = IF d > 0 THEN Append(reads, << "cmp", flags.maxDist >>) ELSE reads
           /\ IF distanceMatch(docLower, nameLower, flags.maxDist)
              THEN pc' = "done" /\ reported' = << diagnostic(t, node.name, node.pos) >>
              ELSE pc' = "word" /\ UNCHANGED reported
    /\ UNCHANGED << call, ret, corpus, flags, cfg, stage, node >>

\* TRUE when the cascade reaches the read of maxDistFlag in wordClose
wordCloseReads(firstTok, name) ==
    LET docWords == splitCamelWords(firstTok)
        symWords == splitCamelWords(name)
        diffs == Mismatches(docWords, symWords)
    IN  /\ ~isCamelSwapVariant(firstTok, name)
        /\ ~(EqualFold(firstTok, name) /\ firstTok # name)
        /\ Len(docWords) # 0 /\ Len(docWords) = Len(symWords)
        /\ \E i \in diffs :
              /\ \A j \in diffs : i <= j
              /\ docWords[i] # << >> /\ symWords[i] # << >>

\* the branches after the comparison, wordClose reading maxDistFlag again
ReadWord ==
    /\ pc = "word"
    /\ LET t == firstIdentifierLike(node.doc)
           pre == lengthPreCheck(t.tok, node.name, ReadAt(reads, "pre"))
           docLower == IF pre THEN ToLower(t.tok) ELSE << >>
           nameLower == IF pre THEN ToLower(node.name) ELSE << >>
       IN  /\ reads' = IF wordCloseReads(t.tok, node.name)
                       THEN Append(reads, << "word", flags.maxDist >>) ELSE reads
           /\ reported' = IF cascadeMatch(flags, t.tok, node.name, docLower, nameLower, flags.maxDist)
                          THEN << diagnostic(t, node.name, node.pos) >> ELSE << >>
    /\ pc' = "done"
    /\ UNCHANGED << call, ret, corpus, flags, cfg, stage, node >>

\* another goroutine sets maxDistFlag while the call is under way
WriteMaxDist ==
    /\ pc \in { "pre", "cmp", "word" }
    /\ \E v \in 0..MaxDist :
          /\ v # flags.maxDist
          /\ flags' = [ flags EXCEPT !.maxDist = v ]
    /\ UNCHANGED << call, ret, corpus, cfg, stage, node, reported, pc, reads >>

\* checkSymbol returns
FinishCheck ==
    /\ pc = "done"
    /\ pc' = "idle"
    /\ node' = NoNode
    /\ reported' = << >>
    /\ reads' = << >>
    /\ UNCHANGED << call, ret, corpus, flags, cfg, stage >>

NextConc ==
    StartRun \/ BeginCheck \/ ReadPre \/ ReadCmp \/ ReadWord \/ WriteMaxDist \/ FinishCheck \/ EndRun

SpecConc == Init /\ [][NextConc]_vars

----------------------------------------------------------------------------
(* Functions called on their own, as the unit tests of the package call    *)
(* them: Init draws a function and its arguments, the action applies it    *)

\* the states of a direct call: everything but call and ret is at rest
InitCall(calls) ==
    /\ corpus = "unit"
    /\ flags = DefaultFlags
    /\ cfg = NoCfg
    /\ stage = "setup"
    /\ node = NoNode
    /\ reported = << >>
    /\ pc = "idle"
    /\ reads = << >>
    /\ call \in calls
    /\ ret = NoRet

\* the call returns v
Return(v) ==
    /\ ret = NoRet
    /\ ret' = << v >>
    /\ UNCHANGED << corpus, flags, cfg, stage, node, reported, pc, reads, call >>

\* flag texts for allowed-leading-words and the tokens looked up in them
MaxListAtoms == 3
ListAtoms == { << "," >>, << ";" >>, << "/" >>, << "\n" >>, << "\t" >>, << " " >>,
               << "a", "b" >>, << "C", "d" >> }
ListTexts == { Concat(ss) : ss \in SeqsUpTo(ListAtoms, MaxListAtoms) }
LeadingWords == { << >>, << "a", "b" >>, << "A", "b" >>, << "c", "d" >>, << "b" >>,
                  << "a", "b", "c", "d" >> }
LeadingWordCalls ==
    { [ fn |-> "isAllowedLeadingWord", raw |-> t, word |-> w ] : t \in ListTexts, w \in LeadingWords }

\* Test_buildAllowedLeadingWords: the word list is built from the flag text
\* and a token is looked up
CallIsAllowedLeadingWord ==
    /\ call.fn = "isAllowedLeadingWord"
    /\ Return(isAllowedLeadingWord(newMatchConfig([ DefaultFlags EXCEPT !.allowedLeadingWords = call.raw ]),
                                   call.word))

InitWords == InitCall(LeadingWordCalls)
SpecWords == InitWords /\ [][CallIsAllowedLeadingWord]_vars

\* working lines of a doc comment: labels, words, punctuation, pointer
\* markers and a two-byte rune, separated by spaces or not
MaxLineAtoms == 4
LineAtoms == { << " " >>, << ":" >>, << "." >>, << "*" >>, << "t", "o", "d", "o" >>,
               << "N", "o", "t", "e" >>, << "a", "b" >>, << "C3", "A9" >> }
Lines == { Concat(ss) : ss \in SeqsUpTo(LineAtoms, MaxLineAtoms) }
LineCalls == { [ fn |-> "identifierFromLine", line |-> l ] : l \in Lines }

\* identifierFromLine on a working line
CallIdentifierFromLine ==
    /\ call.fn = "identifierFromLine"
    /\ Return(identifierFromLine(call.line))

InitLine == InitCall(LineCalls)
SpecLine == InitLine /\ [][CallIdentifierFromLine]_vars

\* strings of up to MaxRunes runes over three letters and a two-byte rune
MaxRunes == 3
RuneAtoms == { << "a" >>, << "b" >>, << "c" >>, << "C3", "A9" >> }
RuneStrings == { Concat(ss) : ss \in SeqsUpTo(RuneAtoms, MaxRunes) }
DistanceCalls == { [ fn |-> "damerauLevenshtein", a |-> a, b |-> b ] : a, b \in RuneStrings }

\* damerauLevenshtein on two strings
CallDamerauLevenshtein ==
    /\ call.fn = "damerauLevenshtein"
    /\ Return(damerauLevenshtein(call.a, call.b))

InitDistance == InitCall(DistanceCalls)
SpecDistance == InitDistance /\ [][CallDamerauLevenshtein]_vars

\* chunks of up to MaxWordLen letters, and the values of maxDistFlag
MaxWordLen == 3
WordLetters == { "a", "b", "A" }
Words == SeqsUpTo(WordLetters, MaxWordLen)
WordCloseCalls ==
    { [ fn |-> "wordClose", a |-> a, b |-> b, maxDist |-> k ] : a, b \in Words, k \in 0..1 }

\* wordClose on two chunks, maxDistFlag being call.maxDist
CallWordClose ==
    /\ call.fn = "wordClose"
    /\ Return(wordClose(call.a, call.b, call.maxDist))

InitClose == InitCall(WordCloseCalls)
SpecClose == InitClose /\ [][CallWordClose]_vars

\* identifiers of up to MaxIdentLen bytes over lower case, capitals, a digit
\* and the underscore, and the two identifiers of Test_splitCamelWords
MaxIdentLen == 5
IdentLetters == { "a", "B", "C", "1", "_" }
Identifiers ==
    SeqsUpTo(IdentLetters, MaxIdentLen) \cup { << "g", "e", "t", "P", "o", "d", "I", "P", "s" >>, << "H", "T", "T", "P", "S", "e", "r", "v", "e", "r", "R", "e", "a", "d", "y" >> }
SplitCalls == { [ fn |-> "splitCamelWords", s |-> s ] : s \in Identifiers }

\* Test_splitCamelWords: splitCamelWords on an identifier
CallSplitCamelWords ==
    /\ call.fn = "splitCamelWords"
    /\ Return(splitCamelWords(call.s))

InitSplit == InitCall(SplitCalls)
SpecSplit == InitSplit /\ [][CallSplitCamelWords]_vars

\* lower-cased tokens and names of up to MaxGateLen bytes, distances up to
\* MaxGateDist, and the two rows of Test_passesDistanceGate
MaxGateLen == 6
MaxGateDist == 3
GateStrings == SeqsUpTo({ "a", "b" }, MaxGateLen)
GateCalls ==
    { [ fn |-> "passesDistanceGate", doc |-> d, name |-> n, dist |-> k ] :
        d, n \in GateStrings, k \in 0..MaxGateDist }
      \cup { [ fn |-> "passesDistanceGate", doc |-> << "v", "a", "l", "i", "d", "a", "t", "e", "A", "l", "l", "o", "w", "e", "d", "T", "o", "p", "o", "l", "o", "g", "y" >>,
               name |-> n, dist |-> 2 ] : n \in { << "v", "a", "l", "i", "d", "a", "t", "e", "A", "l", "l", "o", "w", "e", "d", "T", "o", "p", "o", "l", "o", "g", "i", "e", "s" >>, << "F", "o", "o" >> } }

\* Test_passesDistanceGate: passesDistanceGate on a token, a name and a distance
CallPassesDistanceGate ==
    /\ call.fn = "passesDistanceGate"
    /\ Return(passesDistanceGate(call.doc, call.name, call.dist))

InitGate == InitCall(GateCalls)
SpecGate == InitGate /\ [][CallPassesDistanceGate]_vars

\* identifiers of up to MaxChunks camel chunks, the identifier without any
\* chunk, and chunk budgets from -1 to MaxBudget
MaxChunks == 3
MaxBudget == 2
ChunkAtoms == { << "A", "b" >>, << "C", "d" >>, << "E", "f" >> }
CamelIdents == { Concat(ss) : ss \in SeqsUpTo(ChunkAtoms, MaxChunks) } \cup { << "_" >> }
Budgets == (0 - 1)..MaxBudget
InsertionCalls ==
    { [ fn |-> "hasCamelChunkInsertionOrRemoval", doc |-> d, sym |-> s, k |-> k ] :
        d, s \in CamelIdents, k \in Budgets }
ReplacementCalls ==
    { [ fn |-> "hasCamelChunkReplacement", doc |-> d, sym |-> s, k |-> k ] :
        d, s \in CamelIdents, k \in Budgets }
SwapCalls ==
    { [ fn |-> "isCamelSwapVariant", doc |-> d, sym |-> s ] : d, s \in CamelIdents }

\* Test_hasCamelChunkInsertionOrRemoval
CallHasCamelChunkInsertionOrRemoval ==
    /\ call.fn = "hasCamelChunkInsertionOrRemoval"
    /\ Return(hasCamelChunkInsertionOrRemoval(call.doc, call.sym, call.k))

InitInsertion == InitCall(InsertionCalls)
SpecInsertion == InitInsertion /\ [][CallHasCamelChunkInsertionOrRemoval]_vars

\* Test_hasCamelChunkReplacement
CallHasCamelChunkReplacement ==
    /\ call.fn = "hasCamelChunkReplacement"
    /\ Return(hasCamelChunkReplacement(call.doc, call.sym, call.k))

InitReplacement == InitCall(ReplacementCalls)
SpecReplacement == InitReplacement /\ [][CallHasCamelChunkReplacement]_vars

\* Test_isCamelSwapVariant
CallIsCamelSwapVariant ==
    /\ call.fn = "isCamelSwapVariant"
    /\ Return(isCamelSwapVariant(call.doc, call.sym))

InitSwap == InitCall(SwapCalls)
SpecSwap == InitSwap /\ [][CallIsCamelSwapVariant]_vars

\* lower-cased strings of up to MaxDeltaLen bytes and chunk bounds from -1 to
\* MaxDelta
MaxDeltaLen == 5
MaxDelta == 2
DeltaStrings == SeqsUpTo({ "a", "b" }, MaxDeltaLen)
DeltaCalls ==
    { [ fn |-> "hasSmallChunkDifference", a |-> a, b |-> b, k |-> k ] :
        a, b \in DeltaStrings, k \in (0 - 1)..MaxDelta }

\* hasSmallChunkDifference on two strings and a bound
CallHasSmallChunkDifference ==
    /\ call.fn = "hasSmallChunkDifference"
    /\ Return(hasSmallChunkDifference(call.a, call.b, call.k))

InitDelta == InitCall(DeltaCalls)
SpecDelta == InitDelta /\ [][CallHasSmallChunkDifference]_vars

\* comment lines of up to MaxDotAtoms atoms, and the rows of
\* Test_docFirstWordHasDot
MaxDotAtoms == 4
DotAtoms == { "a", "B", "1", ".", " " }
DotLines ==
    SeqsUpTo(DotAtoms, MaxDotAtoms)
      \cup { << "r", "e", "f", "l", "e", "c", "t", ".", "D", "e", "e", "p", "E", "q", "u", "a", "l", " ", "d", "o", "e", "s", "n", "'", "t", " ", "w", "o", "r", "k" >>, << "f", "o", "o", ".", "B", "a", "r", " ", "i", "s", " ", "w", "e", "i", "r", "d" >>, << "U", "I", "D", ".", "E", "v", "e", "n", "t", " ", "h", "a", "p", "p", "e", "n", "s" >>,
             << ".", "H", "e", "l", "l", "o", " ", "s", "t", "a", "r", "t", "s", " ", "w", "i", "t", "h", " ", "d", "o", "t" >>, << "T", "h", "i", "s", ".", " ", "i", "s", " ", "a", " ", "d", "o", "t", " ", "a", "f", "t", "e", "r" >>, << "S", "e", "r", "v", "e", "H", "T", "T", "P", " ", "h", "a", "n", "d", "l", "e", "s" >>,
             << "S", "e", "r", "v", "e", "H", "T", "T", "P", ".", "f", "o", "o", " ", "h", "a", "n", "d", "l", "e", "s" >> }
DotCalls == { [ fn |-> "docFirstWordHasDot", line |-> l ] : l \in DotLines }

\* Test_docFirstWordHasDot: docFirstWordHasDot on a comment line
CallDocFirstWordHasDot ==
    /\ call.fn = "docFirstWordHasDot"
    /\ Return(docFirstWordHasDot(call.line))

InitDotted == InitCall(DotCalls)
SpecDotted == InitDotted /\ [][CallDocFirstWordHasDot]_vars

\* first doc lines of up to MaxIntroWords words separated by one blank
MaxIntroWords == 3
IntroWords ==
    { << "A", "b" >>, << "a", "b" >>, << "a", "B" >>, << "a", "1" >>, << "(", "A", "b", ")" >>, << "*", "A", "b" >>, << "N", "o", "t", "e", ":" >>, << "t", "h", "e" >>, << "T", "h", "e", "," >>, << "i", "f" >>, << "i", "s" >> }
RECURSIVE JoinWords(_)
JoinWords(ws) ==
    IF Len(ws) = 0 THEN << >>
    ELSE IF Len(ws) = 1 THEN ws[1]
    ELSE ws[1] \o << " " >> \o JoinWords(Tail(ws))
IntroLines == { JoinWords(ws) : ws \in SeqsUpTo(IntroWords, MaxIntroWords) }
IntroCalls == { [ fn |-> "isNarrativeSentenceIntro", line |-> l ] : l \in IntroLines }

\* checkSymbol up to the narrative-sentence-intro filter: the token of the
\* first doc line, and the filter on the token and the line
CallIsNarrativeSentenceIntro ==
    /\ call.fn = "isNarrativeSentenceIntro"
    /\ LET tok == identifierFromLine(call.line).id
       IN  Return([ tok |-> tok, hit |-> isNarrativeSentenceIntro(tok, call.line) ])

InitIntro == InitCall(IntroCalls)
SpecIntro == InitIntro /\ [][CallIsNarrativeSentenceIntro]_vars

\* tokens and names of up to MaxChunks camel chunks under every setting of
\* the three similarity bounds
CascadeSettings ==
    { [ DefaultFlags EXCEPT !.maxDist = d, !.maxCamelChunkReplace = r, !.maxCamelChunkInsert = i ] :
        d \in 0..MaxDist, r \in { 0, MaxBudget }, i \in { 0, MaxBudget } }
CascadeCalls ==
    { [ fn |-> "similar", fl |-> fl, firstTok |-> t, name |-> n ] :
        fl \in CascadeSettings, t \in CamelIdents, n \in CamelIdents }

\* checkSymbol from the length pre-check to the last similarity test
CallSimilar ==
    /\ call.fn = "similar"
    /\ Return(similar(call.fl, call.firstTok, call.name,
                      call.fl.maxDist, call.fl.maxDist, call.fl.maxDist))

InitCascade == InitCall(CascadeCalls)
SpecCascade == InitCascade /\ [][CallSimilar]_vars

\* doc tokens of up to MaxEditTok ASCII letters, symbol names of up to
\* MaxEditName characters, one of them not ASCII, and max_dist from 0 to
\* MaxEditDist
MaxEditTok == 4
MaxEditName == 5
MaxEditDist == 2
EditTokens == SeqsUpTo({ "a", "B" }, MaxEditTok)
EditNames ==
    { Concat(rs) : rs \in SeqsUpTo({ << "a" >>, << "B" >>, << "C3", "A9" >> }, MaxEditName) }
EditCalls ==
    { [ fn |-> "distanceMatch", firstTok |-> t, name |-> n, maxDist |-> d ] :
        t \in EditTokens, n \in EditNames, d \in 0..MaxEditDist }

\* the edit-distance block of checkSymbol and the match it ends with
CallDistanceMatch ==
    /\ call.fn = "distanceMatch"
    /\ LET fl == [ DefaultFlags EXCEPT !.maxDist = call.maxDist ]
       IN  Return([ block |-> /\ lengthPreCheck(call.firstTok, call.name, call.maxDist)
                              /\ distanceMatch(ToLower(call.firstTok), ToLower(call.name),
                                               call.maxDist),
                    match |-> similar(fl, call.firstTok, call.name,
                                      call.maxDist, call.maxDist, call.maxDist) ])

InitEdit == InitCall(EditCalls)
SpecEdit == InitEdit /\ [][CallDistanceMatch]_vars

\* ASCII tokens of up to MaxSkipTok bytes against names that hold up to
\* MaxSkipMarks two-byte letters between up to MaxSkipMarks ASCII letters on
\* either side, under max_dist from 0 to MaxSkipDist
MaxSkipTok == 7
MaxSkipMarks == 4
MaxSkipDist == 5
RECURSIVE Repeat(_, _)
Repeat(s, n) == IF n = 0 THEN << >> ELSE s \o Repeat(s, n - 1)
SkipTokens == { Repeat(<< "a" >>, n) : n \in 0..MaxSkipTok }
SkipNames ==
    { Repeat(<< "a" >>, i) \o Repeat(<< "C3", "A9" >>, k) \o Repeat(<< "a" >>, m) :
        i, k, m \in 0..MaxSkipMarks }
SkipCalls ==
    { [ fn |-> "lengthPreCheck", firstTok |-> t, name |-> n, maxDist |-> d ] :
        t \in SkipTokens, n \in SkipNames, d \in 0..MaxSkipDist }

\* the similarity decision of checkSymbol as it is, and as it would be with
\* the edit-distance block entered whatever the lengths
CallLengthPreCheck ==
    /\ call.fn = "lengthPreCheck"
    /\ LET fl == [ DefaultFlags EXCEPT !.maxDist = call.maxDist ]
           f == cascadeFacts(fl, call.firstTok, call.name)
       IN  Return([ pre |-> f.pre,
                    d |-> damerauLevenshtein(ToLower(call.firstTok), ToLower(call.name)),
                    delta |-> f.delta,
                    match |-> similar(fl, call.firstTok, call.name,
                                      call.maxDist, call.maxDist, call.maxDist),
                    unchecked |-> cascadeInOrder(SourceOrder, [ f EXCEPT !.pre = TRUE ]) ])

InitSkip == InitCall(SkipCalls)
SpecSkip == InitSkip /\ [][CallLengthPreCheck]_vars

\* comment groups of two comments: every comment of the doc corpus first, a
\* comment that starts with a misspelled name second
SecondComments == { << "/", "/", " ", "s", "e", "r", "v", "e", "H", "t", "p", "p", " ", "h", "a", "n", "d", "l", "e", "s" >>, << "/", "/", " ", "a", "B", "a" >> }
GroupNames == DocNames \cup { << "s", "e", "r", "v", "e", "H", "T", "T", "P" >> }
GroupCalls ==
    { [ fn |-> "checkSymbol",
        doc |-> << [ Slash |-> 1, Text |-> c ], [ Slash |-> Len(c) + 2, Text |-> d ] >>,
        name |-> n ] :
        c \in RawComments, d \in SecondComments, n \in GroupNames }

\* checkSymbol on a function with a doc block of two comments
CallCheckSymbol ==
    /\ call.fn = "checkSymbol"
    /\ Return(checkSymbol(newMatchConfig(DefaultFlags), DefaultFlags, call.doc, call.name,
                          IsExported(call.name), kindFunc, 1))

InitGroup == InitCall(GroupCalls)
SpecGroup == InitGroup /\ [][CallCheckSymbol]_vars

----------------------------------------------------------------------------
(* Properties                                                              *)

\* a visit has returned: reported holds what it passed to pass.Report
Checked == stage \in { "checked", "rechecked" }

\* the records of a declaration node: the declaration itself and, for a
\* type, each method of its interface
Records(n) ==
    { [ doc |-> n.doc, name |-> n.name, pos |-> n.pos, generated |-> n.generated,
        kind |-> IF n.decl = "func" THEN "func" ELSE "type" ] }
      \cup { [ doc |-> n.methods[k].doc, name |-> n.methods[k].name, pos |-> n.methods[k].pos,
               generated |-> n.generated, kind |-> "method" ] : k \in 1..Len(n.methods) }

\* the diagnostics reported at a declaration position
DiagsAt(p) == { i \in 1..Len(reported) : reported[i].Pos = p }

\* the gates of run and checkSymbol admit the record under the flags
Admitted(fl, r) ==
    /\ r.doc # << >>
    /\ fl.includeGenerated \/ ~r.generated
    /\ IF r.name # << >> /\ r.name[1] \in UpperSet THEN fl.includeExported
       ELSE fl.includeUnexported
    /\ r.kind = "type" => fl.includeTypes
    /\ r.kind = "method" => fl.includeInterfaceMethods

\* the kind checkSymbol is given for a record
KindOf(r) == IF r.kind = "type" THEN kindType ELSE kindFunc

\* C1: for every doc block from which a token is extracted, the byte range
\* [start, end) lies inside the block, end - start = len(token) > 0 and the
\* bytes of the block in that range are the token; every diagnostic's
\* replacement spans exactly that range and its text is the symbol name.
C1_TokenRange ==
    Checked =>
        \A r \in Records(node) :
            LET t == firstIdentifierLike(r.doc)
            IN  (r.doc # << >> /\ t.tok # << >>) =>
                    /\ \E k \in 1..Len(r.doc) :
                          /\ r.doc[k].Slash <= t.start
                          /\ t.end <= r.doc[k].Slash + Len(r.doc[k].Text)
                          /\ SubSeq(r.doc[k].Text, t.start - r.doc[k].Slash + 1,
                                    t.end - r.doc[k].Slash) = t.tok
                    /\ t.end - t.start = Len(t.tok)
                    /\ Len(t.tok) > 0
                    /\ \A i \in DiagsAt(r.pos) :
                          \A f \in 1..Len(reported[i].SuggestedFixes) :
                              /\ reported[i].SuggestedFixes[f].Pos = t.start
                              /\ reported[i].SuggestedFixes[f].End = t.end
                              /\ reported[i].SuggestedFixes[f].NewText = r.name

\* C1 witness: a diagnostic with a replacement whose token follows a pointer
\* marker on a later line of a block comment
C1_Witness ==
    /\ stage = "checked"
    /\ Len(reported) = 1
    /\ Len(reported[1].SuggestedFixes) = 1
    /\ Take(node.doc[1].Text, 2) = << "/", "*" >>
    /\ reported[1].SuggestedFixes[1].Pos >= node.doc[1].Slash + 4
    /\ node.doc[1].Text[reported[1].SuggestedFixes[1].Pos - node.doc[1].Slash] = "&"

\* C2: after the replacement of a diagnostic is applied to the doc block,
\* the check of the same record emits no diagnostic.
C2_FixIdempotent == stage = "rechecked" => reported = << >>

\* C3 as stated: an admitted record whose token equals the name ignoring
\* case, and differs from it, draws a diagnostic under every max_dist and
\* every setting of the narrative options.
C3_CaseOnlyAlways ==
    Checked =>
        \A r \in Records(node) :
            LET t == firstIdentifierLike(r.doc)
            IN  (Admitted(flags, r) /\ EqualFold(t.tok, r.name) /\ t.tok # r.name)
                    => DiagsAt(r.pos) # {}

\* C3 amended: an admitted record whose token is at least 3 bytes long,
\* equals the name ignoring case and differs from it draws a diagnostic
\* under every max_dist, provided no narrative filter suppresses it.
C3_CaseOnlyUnfiltered ==
    Checked =>
        \A r \in Records(node) :
            LET t == firstIdentifierLike(r.doc)
            IN  (/\ Admitted(flags, r)
                 /\ EqualFold(t.tok, r.name) /\ t.tok # r.name
                 /\ Len(t.tok) >= 3
                 /\ ~narrativeFilter(cfg, flags, t, r.name, KindOf(r)))
                    => DiagsAt(r.pos) # {}

\* C3 witness: with skipPlainWordCamel off and max_dist 0, Servehttp against
\* serveHTTP is reported
C3_Witness ==
    /\ stage = "checked"
    /\ flags.maxDist = 0
    /\ ~flags.skipPlainWordCamel
    /\ node.decl = "func"
    /\ node.name = << "s", "e", "r", "v", "e", "H", "T", "T", "P" >>
    /\ firstIdentifierLike(node.doc).tok = << "S", "e", "r", "v", "e", "h", "t", "t", "p" >>
    /\ Len(reported) = 1

\* C4: a record that draws a diagnostic with max_dist = k draws one with
\* max_dist = k + 1, all other options unchanged.
C4_MonotoneMaxDist ==
    (Checked /\ reported # << >>)
        => runNode(cfg, [ flags EXCEPT !.maxDist = flags.maxDist + 1 ], node) # << >>

\* C4 witness: a record reported at max_dist 1 that is not reported at
\* max_dist 0
C4_Witness ==
    /\ stage = "checked"
    /\ flags.maxDist = 1
    /\ reported # << >>
    /\ runNode(cfg, [ flags EXCEPT !.maxDist = 0 ], node) = << >>

\* the token is the name with two adjacent, different characters exchanged
AdjacentTransposition(tok, name) ==
    /\ Len(tok) = Len(name)
    /\ \E i \in 1..(Len(name) - 1) :
          /\ name[i] # name[i + 1]
          /\ tok = [ name EXCEPT ![i] = name[i + 1], ![i + 1] = name[i] ]

\* C5: with max_dist >= 1, an admitted record whose token is the name with
\* two adjacent characters exchanged draws a diagnostic when no narrative
\* filter applies.
C5_TranspositionReported ==
    Checked =>
        \A r \in Records(node) :
            LET t == firstIdentifierLike(r.doc)
            IN  (/\ flags.maxDist >= 1
                 /\ Admitted(flags, r)
                 /\ Len(t.tok) >= 3
                 /\ AdjacentTransposition(t.tok, r.name)
                 /\ ~narrativeFilter(cfg, flags, t, r.name, KindOf(r)))
                    => DiagsAt(r.pos) # {}

\* C6: a record whose doc block is empty, yields no token, or yields a
\* token shorter than 3 bytes draws no diagnostic under any configuration.
C6_ShortTokenSilent ==
    Checked =>
        \A r \in Records(node) :
            (r.doc = << >> \/ Len(firstIdentifierLike(r.doc).tok) < 3) => DiagsAt(r.pos) = {}

\* C6 witness: the two-byte token of "ab is short" on abc, under flags
\* that admit the record
C6_Witness ==
    /\ stage = "checked"
    /\ node.name = << "a", "b", "c" >>
    /\ Admitted(flags, CHOOSE r \in Records(node) : TRUE)
    /\ Len(firstIdentifierLike(node.doc).tok) = 2
    /\ reported = << >>

\* C7: a record draws no diagnostic when it is generated and includeGenerated
\* is off, exported and includeExported is off, unexported and
\* includeUnexported is off, a type and includeTypes is off, or an interface
\* method and includeInterfaceMethods is off.
C7_GatesAdmit ==
    Checked =>
        \A r \in Records(node) : ~Admitted(flags, r) => DiagsAt(r.pos) = {}

\* C7 witness: an exported function that is left alone because
\* includeExported is off and is reported once it is on
C7_Witness ==
    /\ stage = "checked"
    /\ node.decl = "func"
    /\ node.name[1] \in UpperSet
    /\ ~flags.includeExported
    /\ reported = << >>
    /\ runNode(cfg, [ flags EXCEPT !.includeExported = TRUE ], node) # << >>

C9_NoPanicAtMostOne ==
    /\ stage # "panicked"
    /\ Checked => \A r \in Records(node) : Cardinality(DiagsAt(r.pos)) <= 1

\* C9 witness: a reported record whose first line is the token alone, the
\* case in which no byte follows the token
C9_Witness ==
    /\ stage = "checked"
    /\ Len(reported) = 1
    /\ firstIdentifierLike(node.doc).line = firstIdentifierLike(node.doc).tok

\* C10: one call of checkSymbol reads one value of maxDistFlag: the length
\* pre-check, the distance comparison and wordClose see the same max_dist.
C10_ReadOnce ==
    pc = "done" => \A i, j \in 1..Len(reads) : reads[i][2] = reads[j][2]

\* the separators of a comma-separated flag value
ListSeparators == { ",", ";", "/", "\n", "\t", " " }

\* the non-empty fragments of a flag value: the maximal runs of bytes that
\* are not separators
Fragments(text) ==
    { SubSeq(text, p[1], p[2]) :
        p \in { q \in (1..Len(text)) \X (1..Len(text)) :
                   /\ q[1] <= q[2]
                   /\ \A k \in q[1]..q[2] : text[k] \notin ListSeparators
                   /\ q[1] = 1 \/ text[q[1] - 1] \in ListSeparators
                   /\ q[2] = Len(text) \/ text[q[2] + 1] \in ListSeparators } }

\* equal after lowercasing both
SameFolded(s, t) == Len(s) = Len(t) /\ \A i \in 1..Len(s) : lowerOne(s[i]) = lowerOne(t[i])

\* the symbol is a configured prefix followed by the token, ignoring case
PrefixedToken(p, tok, name) ==
    /\ Len(name) > Len(p)
    /\ SameFolded(SubSeq(name, 1, Len(p)), p)
    /\ SameFolded(SubSeq(name, Len(p) + 1, Len(name)), tok)

\* C11: no diagnostic is emitted when the symbol is a configured allowed
\* prefix followed by the doc token, ignoring case; and a symbol that
\* starts with no configured prefix is never suppressed by the
\* allowed-prefix filter.
C11_AllowedPrefix ==
    Checked =>
        \A r \in Records(node) :
            LET t == firstIdentifierLike(r.doc)
                ps == Fragments(flags.allowedPrefixes)
            IN  /\ (r.doc # << >> /\ \E p \in ps : PrefixedToken(p, t.tok, r.name))
                        => DiagsAt(r.pos) = {}
                /\ (r.doc # << >> /\ \A p \in ps : ~SameFolded(Take(r.name, Len(p)), p))
                        => ~matchesAllowedPrefixVariant(cfg, t.tok, r.name)

\* C11 witness: Thing on opThing with allowed prefixes asm,op is left alone
\* and is reported when no prefix is configured
C11_Witness ==
    /\ stage = "checked"
    /\ node.name = << "o", "p", "T", "h", "i", "n", "g" >>
    /\ firstIdentifierLike(node.doc).tok = << "T", "h", "i", "n", "g" >>
    /\ flags.allowedPrefixes = << "a", "s", "m", ",", "o", "p" >>
    /\ reported = << >>
    /\ runNode([ cfg EXCEPT !.allowedPrefixes = << >> ],
               [ flags EXCEPT !.allowedPrefixes = << >> ], node) # << >>

\* the call of fn has returned
Returned(fn) == call.fn = fn /\ ret # NoRet

\* C12: a token is suppressed as an allowed leading word iff its lowercase
\* form equals the lowercase form of a non-empty fragment of the
\* allowed-leading-words text, split on comma, semicolon, slash, newline,
\* tab or space; an empty list suppresses nothing.
C12_AllowedLeadingWord ==
    Returned("isAllowedLeadingWord") =>
        /\ ret[1] = (\E f \in Fragments(call.raw) : SameFolded(f, call.word))
        /\ Fragments(call.raw) = {} => ret[1] = FALSE

\* C12 witness: a word found, ignoring case, in a list that uses semicolon
\* or slash as a separator
C12_Witness ==
    /\ Returned("isAllowedLeadingWord")
    /\ ret[1] = TRUE
    /\ call.word = << "A", "b" >>
    /\ \E i \in 1..Len(call.raw) : call.raw[i] \in { ";", "/" }
    /\ Cardinality(Fragments(call.raw)) = 2

\* the words of a line: the maximal runs of bytes that are not space or tab,
\* as << first, last >> positions
WordSpans(line) ==
    { q \in (1..Len(line)) \X (1..Len(line)) :
        /\ q[1] <= q[2]
        /\ \A k \in q[1]..q[2] : line[k] \notin { " ", "\t" }
        /\ q[1] = 1 \/ line[q[1] - 1] \in { " ", "\t" }
        /\ q[2] = Len(line) \/ line[q[2] + 1] \in { " ", "\t" } }

\* a word without the punctuation , . ; : ( ) [ ] { } at its two ends
Core(w) ==
    LET inner == { k \in 1..Len(w) : w[k] \notin { ",", ".", ";", ":", "(", ")", "[", "]", "{", "}" } }
    IN  IF inner = {} THEN << >>
        ELSE SubSeq(w, CHOOSE k \in inner : \A m \in inner : k <= m,
                       CHOOSE k \in inner : \A m \in inner : k >= m)

Folded(w) == [ i \in 1..Len(w) |-> lowerOne(w[i]) ]

LabelWords ==
    { << "d", "e", "p", "r", "e", "c", "a", "t", "e", "d" >>, << "t", "o", "d", "o" >>, << "n", "o", "t", "e" >>, << "f", "i", "x", "m", "e" >>, << "n", "o", "l", "i", "n", "t" >>, << "l", "i", "n", "t" >>, << "w", "a", "r", "n", "i", "n", "g" >> }

\* the identifier at the head of a word: after its pointer markers, the
\* longest run of ASCII letters, digits and underscores
IdentifierOf(w) ==
    LET from == CHOOSE a \in 1..(Len(w) + 1) :
                    /\ \A k \in 1..(a - 1) : w[k] \in { "*", "&" }
                    /\ a = Len(w) + 1 \/ w[a] \notin { "*", "&" }
        to == CHOOSE b \in (from - 1)..Len(w) :
                    /\ \A k \in from..b : w[k] \in IdentSet
                    /\ b = Len(w) \/ w[b + 1] \notin IdentSet
    IN  SubSeq(w, from, to)

\* the token of the first word of the line that Skip does not pass over;
\* none when every word is passed over
TokenAfter(line, Skip(_)) ==
    LET kept == { q \in WordSpans(line) : ~Skip(SubSeq(line, q[1], q[2])) }
    IN  IF kept = {} THEN << >>
        ELSE LET first == CHOOSE q \in kept : \A m \in kept : q[1] <= m[1]
             IN  IdentifierOf(Core(SubSeq(line, first[1], first[2])))

\* a label, case-insensitive, with an optional trailing ':'
IsLabelWord(w) ==
    \/ Folded(w) \in LabelWords
    \/ Len(w) > 1 /\ w[Len(w)] = ":" /\ Folded(SubSeq(w, 1, Len(w) - 1)) \in LabelWords

\* a word that is a label, or nothing at all, once the punctuation at its
\* ends is removed
IsLabelOrPunctuation(w) == Core(w) = << >> \/ Folded(Core(w)) \in LabelWords

C13_StopsAtEmptyRun ==
    /\ Returned("identifierFromLine")
    /\ call.line = << "*", " ", "a", "b" >>
    /\ ret[1].id = << >>

\* the least element of a non-empty set of numbers
Least(S) == CHOOSE x \in S : \A y \in S : x <= y

\* the unrestricted Damerau-Levenshtein distance between the first i runes
\* of a and the first j runes of b: the least number of insertions,
\* deletions, substitutions and transpositions of adjacent runes, where the
\* runes between and around a transposed pair may be edited again
RECURSIVE EditDistance(_, _, _, _)
EditDistance(a, b, i, j) ==
    IF i = 0 THEN j
    ELSE IF j = 0 THEN i
    ELSE Least({ EditDistance(a, b, i - 1, j) + 1,
                 EditDistance(a, b, i, j - 1) + 1,
                 EditDistance(a, b, i - 1, j - 1) + (IF a[i] = b[j] THEN 0 ELSE 1) }
               \cup { EditDistance(a, b, k - 1, l - 1) + (i - k - 1) + 1 + (j - l - 1) :
                        <<k, l>> \in { q \in (1..(i - 1)) \X (1..(j - 1)) :
                                        a[q[1]] = b[j] /\ a[i] = b[q[2]] } })

\* the optimal string alignment distance: as above, but a transposed pair
\* is adjacent in both strings and is not edited again
RECURSIVE AlignmentDistance(_, _, _, _)
AlignmentDistance(a, b, i, j) ==
    IF i = 0 THEN j
    ELSE IF j = 0 THEN i
    ELSE Least({ AlignmentDistance(a, b, i - 1, j) + 1,
                 AlignmentDistance(a, b, i, j - 1) + 1,
                 AlignmentDistance(a, b, i - 1, j - 1) + (IF a[i] = b[j] THEN 0 ELSE 1) }
               \cup (IF i > 1 /\ j > 1 /\ a[i] = b[j - 1] /\ a[i - 1] = b[j]
                     THEN { AlignmentDistance(a, b, i - 2, j - 2) + 1 } ELSE { }))

\* C14 as stated: damerauLevenshtein(a, b) is the least number of unit-cost
\* insertions, deletions, substitutions and adjacent transpositions that
\* turn a into b (2 for "ca" and "abc").
C14_TrueDistance ==
    Returned("damerauLevenshtein") =>
        ret[1] = EditDistance(Runes(call.a), Runes(call.b), Len(Runes(call.a)), Len(Runes(call.b)))

\* C14 amended: damerauLevenshtein(a, b) is the optimal string alignment
\* distance over runes: the least number of unit-cost insertions,
\* deletions, substitutions and transpositions of two adjacent runes in
\* which no rune is edited more than once (3 for "ca" and "abc").
C14_AlignmentDistance ==
    Returned("damerauLevenshtein") =>
        ret[1] = AlignmentDistance(Runes(call.a), Runes(call.b),
                                   Len(Runes(call.a)), Len(Runes(call.b)))

\* C14 witness: "ca" against "abc" gives 3
C14_Witness ==
    /\ Returned("damerauLevenshtein")
    /\ call.a = << "c", "a" >>
    /\ call.b = << "a", "b", "c" >>
    /\ ret[1] = 3

\* the greatest element of a non-empty set of numbers
Greatest(S) == CHOOSE x \in S : \A y \in S : x >= y

\* the lengths of the longest common prefix and suffix of two strings
SharedPrefix(a, b) ==
    Greatest({ n \in 0..Len(a) : n <= Len(b) /\ \A i \in 1..n : a[i] = b[i] })
SharedSuffix(a, b) ==
    Greatest({ n \in 0..Len(a) : n <= Len(b) /\ \A i \in 1..n : a[Len(a) - n + i] = b[Len(b) - n + i] })

\* word_close as the claim defines it
WordCloseSpec(a, b, maxDist) ==
    LET al == Folded(a)
        bl == Folded(b)
        minLen == Least({ Len(a), Len(b) })
    IN  \/ al = bl
        \/ /\ AlignmentDistance(al, bl, Len(al), Len(bl)) <= maxDist + 1
           /\ minLen > 1
           /\ \/ SharedPrefix(al, bl) >= Greatest({ 2, minLen - 2 })
              \/ SharedSuffix(al, bl) >= Greatest({ 2, minLen - 2 })

\* C15: for non-empty a and b, wordClose(a, b) is true iff a and b are equal
\* after lowercasing, or their edit distance is <= max_dist + 1, the shorter
\* length is > 1 and the common prefix or suffix is at least
\* max(2, min_len - 2) long (2 when the shorter has three letters).
C15_WordClose ==
    (Returned("wordClose") /\ call.a # << >> /\ call.b # << >>)
        => ret[1] = WordCloseSpec(call.a, call.b, call.maxDist)

\* the identifier without its underscores
WithoutUnderscores(s) == SelectSeq(s, LAMBDA c : c # "_")

\* the rule of the splitter: a chunk starts at position i > 1 on a change
\* between digit and non-digit or letter and non-letter, on a lower-case
\* letter followed by a capital, and on the last capital of a run that is
\* followed by a lower-case letter
StartsChunk(s, i) ==
    \/ (s[i - 1] \in DigitSet) # (s[i] \in DigitSet)
    \/ (s[i - 1] \in LowerSet \cup UpperSet) # (s[i] \in LowerSet \cup UpperSet)
    \/ s[i - 1] \in LowerSet /\ s[i] \in UpperSet
    \/ s[i - 1] \in UpperSet /\ s[i] \in UpperSet /\ i < Len(s) /\ s[i + 1] \in LowerSet

\* the chunks of s, lower-cased, when chunks start at position 1 and at the
\* positions in starts
ChunksAt(s, starts) ==
    LET all == { 1 } \cup starts
        nth(k) == CHOOSE i \in all : Cardinality({ j \in all : j < i }) = k - 1
        last(k) == IF k = Cardinality(all) THEN Len(s) ELSE nth(k + 1) - 1
    IN  IF s = << >> THEN << >>
        ELSE [ k \in 1..Cardinality(all) |-> Folded(SubSeq(s, nth(k), last(k))) ]

\* position i is the last capital of a run of at least two capitals that
\* begins at from and is followed by lower-case letters up to the end of s
EndsTrailingAcronym(s, from, i) ==
    /\ from < i /\ i < Len(s)
    /\ \A k \in from..i : s[k] \in UpperSet
    /\ from = 1 \/ s[from - 1] \notin UpperSet
    /\ \A k \in (i + 1)..Len(s) : s[k] \in LowerSet

GateSpec(doc, name, d) ==
    LET shared == Least({ Len(doc), SharedPrefix(doc, name) + SharedSuffix(doc, name) })
        required == Greatest({ 3, Len(doc) - d })
    IN  /\ d > 0
        /\ Len(doc) >= 3 + d
        /\ Len(name) >= 3
        /\ \/ shared >= required
           \/ Len(doc) >= 6 /\ 2 * shared >= Len(doc) /\ Len(doc) - shared <= d

\* C17: passesDistanceGate(doc, name, d) is true iff d > 0, len(doc) >= 3 + d,
\* len(name) >= 3 and, with shared = min(len(doc), prefix + suffix) and
\* required = max(3, len(doc) - d), shared >= required or (len(doc) >= 6,
\* 2*shared >= len(doc) and len(doc) - shared <= d); it is true for
\* (validateAllowedTopology, validateAllowedTopologies, 2) and false for
\* (validateAllowedTopology, Foo, 2).
C17_DistanceGate ==
    Returned("passesDistanceGate") =>
        /\ ret[1] = GateSpec(call.doc, call.name, call.dist)
        /\ call.name = << "v", "a", "l", "i", "d", "a", "t", "e", "A", "l", "l", "o", "w", "e", "d", "T", "o", "p", "o", "l", "o", "g", "i", "e", "s" >> => ret[1] = TRUE
        /\ call.name = << "F", "o", "o" >> => ret[1] = FALSE

\* C17 witness: the gate passes with exactly the required number of shared
\* bytes, and the first row of Test_passesDistanceGate passes
C17_Witness ==
    /\ Returned("passesDistanceGate")
    /\ ret[1] = TRUE
    /\ \/ /\ Len(call.doc) = 5 /\ call.dist = 2
          /\ SharedPrefix(call.doc, call.name) + SharedSuffix(call.doc, call.name) = 3
       \/ call.name = << "v", "a", "l", "i", "d", "a", "t", "e", "A", "l", "l", "o", "w", "e", "d", "T", "o", "p", "o", "l", "o", "g", "i", "e", "s" >>

\* the chunk lists of the two identifiers of a call
DocChunks == splitCamelWords(call.doc)
SymChunks == splitCamelWords(call.sym)

\* the embeddings of short into long that keep the order, and the positions of
\* long that an embedding skips
Embeddings(short, long) ==
    { f \in [ 1..Len(short) -> 1..Len(long) ] :
        /\ \A i \in 1..Len(short) : long[f[i]] = short[i]
        /\ \A i, j \in 1..Len(short) : i < j => f[i] < f[j] }
Skipped(short, long, f) == { p \in 1..Len(long) : \A i \in 1..Len(short) : f[i] # p }
SubsequenceWithin(short, long, k) ==
    \E f \in Embeddings(short, long) : Cardinality(Skipped(short, long, f)) <= k
InsertionSpec(D, S, k) ==
    /\ k > 0
    /\ Len(D) > 0 /\ Len(S) > 0
    /\ Len(D) # Len(S)
    /\ abs(Len(D) - Len(S)) <= k
    /\ IF Len(D) < Len(S) THEN SubsequenceWithin(D, S, k) ELSE SubsequenceWithin(S, D, k)

\* C18: hasCamelChunkInsertionOrRemoval(doc, sym, k) is true iff k > 0, both
\* chunk lists are non-empty, 0 < ||D| - |S|| <= k and the shorter list is an
\* in-order subsequence of the longer one with at most k skipped positions;
\* it is false when k <= 0 and when |D| = |S|, and exchanging doc and sym does
\* not change the result.
C18_InsertionOrRemoval ==
    Returned("hasCamelChunkInsertionOrRemoval") =>
        /\ ret[1] = InsertionSpec(DocChunks, SymChunks, call.k)
        /\ call.k <= 0 => ret[1] = FALSE
        /\ Len(DocChunks) = Len(SymChunks) => ret[1] = FALSE
        /\ ret[1] = hasCamelChunkInsertionOrRemoval(call.sym, call.doc, call.k)

\* C18 witness: a chunk removed from the middle of a three-chunk name is
\* accepted
C18_Witness ==
    /\ Returned("hasCamelChunkInsertionOrRemoval")
    /\ ret[1] = TRUE
    /\ Len(DocChunks) = 2 /\ Len(SymChunks) = 3
    /\ DocChunks[1] = SymChunks[1] /\ DocChunks[2] = SymChunks[3]
    /\ DocChunks[2] # SymChunks[2]

\* the positions where two chunk lists of equal length differ
Differing(D, S) == { i \in 1..Len(D) : D[i] # S[i] }
ReplacementSpec(D, S, k) ==
    /\ k > 0
    /\ Len(D) = Len(S) /\ Len(D) >= 2
    /\ Cardinality(Differing(D, S)) > 0
    /\ Cardinality(Differing(D, S)) <= k
    /\ \E i \in 1..Len(D) : D[i] = S[i]

\* C19: hasCamelChunkReplacement(doc, sym, k) is true iff k > 0, the chunk
\* lists have equal length >= 2, the number m of mismatching positions
\* satisfies 0 < m <= k and at least one position matches; identical
\* identifiers and identifiers with different chunk counts are never accepted.
C19_Replacement ==
    Returned("hasCamelChunkReplacement") =>
        /\ ret[1] = ReplacementSpec(DocChunks, SymChunks, call.k)
        /\ call.doc = call.sym => ret[1] = FALSE
        /\ Len(DocChunks) # Len(SymChunks) => ret[1] = FALSE

\* C19 witness: two of three chunks are replaced and accepted with k = 2
C19_Witness ==
    /\ Returned("hasCamelChunkReplacement")
    /\ ret[1] = TRUE
    /\ Len(DocChunks) = 3 /\ Len(SymChunks) = 3 /\ call.k = 2
    /\ Cardinality(Differing(DocChunks, SymChunks)) = 2

SwapSpec(D, S) ==
    /\ Len(D) = Len(S) /\ Len(D) >= 2
    /\ \E i, j \in 1..Len(D) :
           /\ i < j
           /\ Differing(D, S) = { i, j }
           /\ D[i] = S[j] /\ D[j] = S[i]

InsertedAt(short, long, i) ==
    /\ SubSeq(long, 1, i) = SubSeq(short, 1, i)
    /\ SubSeq(long, i + 1 + Len(long) - Len(short), Len(long)) = SubSeq(short, i + 1, Len(short))
OneRunInserted(short, long) == \E i \in 0..Len(short) : InsertedAt(short, long, i)
DeltaSpec(a, b, k) ==
    LET short == IF Len(a) < Len(b) THEN a ELSE b
        long == IF Len(a) < Len(b) THEN b ELSE a
    IN  /\ k > 0
        /\ Len(a) # Len(b)
        /\ Len(long) - Len(short) <= k
        /\ OneRunInserted(short, long)

\* C21: hasSmallChunkDifference(a, b, k) is true iff k > 0, the lengths differ
\* by at most k and the longer string is the shorter one with one contiguous
\* run of exactly that many bytes inserted, which is the same as the shared
\* prefix and suffix covering the shorter string; exchanging a and b does not
\* change the result.
C21_SmallChunkDifference ==
    Returned("hasSmallChunkDifference") =>
        /\ ret[1] = DeltaSpec(call.a, call.b, call.k)
        /\ (call.k > 0 /\ Len(call.a) # Len(call.b)
              /\ abs(Len(call.a) - Len(call.b)) <= call.k) =>
               ret[1] = (SharedPrefix(call.a, call.b) + SharedSuffix(call.a, call.b)
                           >= Least({ Len(call.a), Len(call.b) }))
        /\ ret[1] = hasSmallChunkDifference(call.b, call.a, call.k)

\* C21 witness: two bytes inserted in the middle of a three-byte string are
\* accepted
C21_Witness ==
    /\ Returned("hasSmallChunkDifference")
    /\ ret[1] = TRUE
    /\ Len(call.a) = 3 /\ Len(call.b) = 5
    /\ InsertedAt(call.a, call.b, 1)
    /\ ~InsertedAt(call.a, call.b, 0) /\ ~InsertedAt(call.a, call.b, 3)

\* the first whitespace-separated word of a line as a pair of positions, the
\* position of its first '.', and the text before it
WhiteBytes == { " ", "\t", "\n", "\r", "\f" }
FirstWordSpans(line) ==
    { q \in (1..Len(line)) \X (1..Len(line)) :
        /\ q[1] <= q[2]
        /\ \A k \in 1..(q[1] - 1) : line[k] \in WhiteBytes
        /\ \A k \in q[1]..q[2] : line[k] \notin WhiteBytes
        /\ q[2] = Len(line) \/ line[q[2] + 1] \in WhiteBytes }
DotsOf(line, q) == { k \in q[1]..q[2] : line[k] = "." }
BeforeFirstDot(line, q) == SubSeq(line, q[1], Least(DotsOf(line, q)) - 1)
Capitals == { UpperSeq[i] : i \in 1..Len(UpperSeq) }
HasCapital(s) == \E k \in 1..Len(s) : s[k] \in Capitals
DottedSpec(line) ==
    \E q \in FirstWordSpans(line) :
        DotsOf(line, q) # { } /\ ~HasCapital(BeforeFirstDot(line, q))

C23_CapitalisedPrefixMatches ==
    (/\ Returned("docFirstWordHasDot")
     /\ \E q \in FirstWordSpans(call.line) :
            /\ DotsOf(call.line, q) # { }
            /\ BeforeFirstDot(call.line, q) # << >>
            /\ BeforeFirstDot(call.line, q)[1] \in Capitals)
        => ret[1] = TRUE

\* the whitespace-separated words of a line as pairs of positions, the n-th
\* of them, and a word without the punctuation at its ends
AllWordSpans(line) ==
    { q \in (1..Len(line)) \X (1..Len(line)) :
        /\ q[1] <= q[2]
        /\ \A k \in q[1]..q[2] : line[k] \notin WhiteBytes
        /\ q[1] = 1 \/ line[q[1] - 1] \in WhiteBytes
        /\ q[2] = Len(line) \/ line[q[2] + 1] \in WhiteBytes }
HasWord(line, n) == Cardinality(AllWordSpans(line)) >= n
NthWord(line, n) ==
    LET q == CHOOSE p \in AllWordSpans(line) :
                 Cardinality({ r \in AllWordSpans(line) : r[1] < p[1] }) = n - 1
    IN  SubSeq(line, q[1], q[2])
StripBytes == { " ", "\t", ":", ".", ",", ";", "\r", "\n", "-", "*" }
Bare(w) ==
    LET inner == { k \in 1..Len(w) : w[k] \notin StripBytes }
    IN  IF inner = { } THEN << >> ELSE SubSeq(w, Least(inner), Greatest(inner))
Smalls == { LowerSeq[i] : i \in 1..Len(LowerSeq) }
SimpleWord(tok) ==
    /\ tok # << >>
    /\ \A k \in 1..Len(tok) : tok[k] \in Smalls \cup Capitals
    /\ Len(tok) = 1 \/ \A k \in 2..Len(tok) : tok[k] \in Smalls
IntroSecondWords ==
    { << "t", "h", "a", "t" >>, << "t", "h", "e" >>, << "a" >>, << "a", "n" >>, << "t", "h", "i", "s" >>, << "t", "h", "e", "s", "e" >>, << "t", "h", "o", "s", "e" >>, << "w", "h", "e", "t", "h", "e", "r" >>, << "i", "f" >> }
SecondWordIntroduces(line) ==
    HasWord(line, 2) /\ Folded(Bare(NthWord(line, 2))) \in IntroSecondWords
LabelSkipped(line, tok) ==
    /\ HasWord(line, 2)
    /\ Folded(Bare(NthWord(line, 1))) \in LabelWords
    /\ tok # << >>

\* C24: the narrative-sentence-intro filter returns true iff the token is a
\* simple word and the second word of the line, punctuation-stripped and
\* lower-cased, is one of that, the, a, an, this, these, those, whether, if;
\* also when a label was skipped before the token.
C24_IntroIffSimpleAndSecondWord ==
    Returned("isNarrativeSentenceIntro") =>
        ret[1].hit = (SimpleWord(ret[1].tok) /\ SecondWordIntroduces(call.line))

\* C24 as the code has it: the filter returns true iff the token is a simple
\* word, the first word of the line, punctuation-stripped, equals the token
\* up to case, and the second word is one of the nine; after a skipped label
\* the filter returns false.
C24_IntroNeedsFirstWord ==
    Returned("isNarrativeSentenceIntro") =>
        /\ ret[1].hit = (/\ SimpleWord(ret[1].tok)
                         /\ SecondWordIntroduces(call.line)
                         /\ Folded(Bare(NthWord(call.line, 1))) = Folded(ret[1].tok))
        /\ LabelSkipped(call.line, ret[1].tok) => ret[1].hit = FALSE

\* C24 witness: a label is skipped, the token after it is a simple word and
\* the second word of the line is one of the nine, and the filter returns
\* false
C24_Witness ==
    /\ Returned("isNarrativeSentenceIntro")
    /\ LabelSkipped(call.line, ret[1].tok)
    /\ SimpleWord(ret[1].tok)
    /\ SecondWordIntroduces(call.line)
    /\ ret[1].hit = FALSE

\* orders of the seven similarity statements: one statement moved to the
\* front or to the end of the order of the source, and the reversed order
Without(order, b) == SelectSeq(order, LAMBDA x : x # b)
Reversed(order) == [ i \in 1..Len(order) |-> order[Len(order) + 1 - i] ]
OtherOrders ==
    { << b >> \o Without(SourceOrder, b) : b \in 2..7 }
      \cup { Without(SourceOrder, b) \o << b >> : b \in 1..6 }
      \cup { Reversed(SourceOrder) }
KeepsBlockFirst(order) == order[1] = 1
CallFacts == cascadeFacts(call.fl, call.firstTok, call.name)

\* C25: the order of the similarity statements of checkSymbol is significant.
\* Executed in the order of the source they give the result of checkSymbol;
\* every order that keeps the edit-distance block first gives the same
\* result; an order that moves the block behind another statement, or the
\* byte-delta test before the block, can only lose the diagnostic, and for
\* some record and configuration it does (C25_Witness).
C25_OrderSignificant ==
    Returned("similar") =>
        LET f == CallFacts
        IN  /\ cascadeInOrder(SourceOrder, f) = ret[1]
            /\ \A order \in OtherOrders :
                   /\ KeepsBlockFirst(order) => cascadeInOrder(order, f) = ret[1]
                   /\ cascadeInOrder(order, f) => ret[1]

\* C25 witness: a token and a name that checkSymbol reports, and that it
\* would not report with the byte-delta test tried first
C25_Witness ==
    /\ Returned("similar")
    /\ ret[1] = TRUE
    /\ ~cascadeInOrder(<< 7, 1, 2, 3, 4, 5, 6 >>, CallFacts)

\* C26: a doc comment that starts with the symbol name is never flagged: when
\* the token is byte for byte the name, no similarity test matches, under
\* every max_dist and every chunk bound, so checkSymbol reports nothing.
C26_SameNameSilent ==
    (Returned("similar") /\ call.firstTok = call.name) => ret[1] = FALSE

\* C26 witness: a three-chunk token equal to the name, under the widest
\* bounds, is not matched
C26_Witness ==
    /\ Returned("similar")
    /\ call.firstTok = call.name
    /\ Len(splitCamelWords(call.name)) = 3
    /\ call.fl.maxDist = MaxDist
    /\ call.fl.maxCamelChunkReplace = MaxBudget
    /\ call.fl.maxCamelChunkInsert = MaxBudget
    /\ ret[1] = FALSE

\* two sequences of characters that differ by one substitution, or by one
\* insertion
OneSubstituted(a, b) ==
    /\ Len(a) = Len(b)
    /\ Cardinality({ i \in 1..Len(a) : a[i] # b[i] }) = 1
DropAt(s, i) == SubSeq(s, 1, i - 1) \o SubSeq(s, i + 1, Len(s))
OneInserted(short, long) ==
    /\ Len(long) = Len(short) + 1
    /\ \E i \in 1..Len(long) : DropAt(long, i) = short
OneEdit(a, b) == OneSubstituted(a, b) \/ OneInserted(a, b) \/ OneInserted(b, a)

\* C27: with max_dist >= 1, for every name of at least 3 characters and every
\* token of at least 4 whose lower-case form differs from the lower-case name
\* by exactly one substitution, insertion or deletion of a character, the
\* edit-distance block matches, so checkSymbol reports the record unless a
\* gate or a narrative filter stops it earlier.
C27_OneEditMatches ==
    (/\ Returned("distanceMatch")
     /\ call.maxDist >= 1
     /\ Len(Runes(call.name)) >= 3
     /\ Len(call.firstTok) >= 4
     /\ OneEdit(Runes(ToLower(call.firstTok)), Runes(ToLower(call.name))))
        => ret[1].block /\ ret[1].match

\* C27 witness: a four-letter token one character away from a name whose
\* differing character is not ASCII is matched by the edit-distance block
C27_Witness ==
    /\ Returned("distanceMatch")
    /\ call.maxDist = 1
    /\ Len(call.firstTok) = 4
    /\ OneSubstituted(Runes(ToLower(call.firstTok)), Runes(ToLower(call.name)))
    /\ Len(call.name) = 5
    /\ ret[1].block

\* the bytes of doc that the shared prefix and suffix do not cover
Unshared(doc, name) ==
    Len(doc) - Least({ Len(doc), SharedPrefix(doc, name) + SharedSuffix(doc, name) })

\* C28: the fallback clause of passesDistanceGate never changes its result:
\* the gate is true iff d > 0, len(doc) >= 3 + d, len(name) >= 3 and
\* len(doc) - min(len(doc), prefix + suffix) <= d.
C28_FallbackNeverDecides ==
    Returned("passesDistanceGate") =>
        ret[1] = (/\ call.dist > 0
                  /\ Len(call.doc) >= 3 + call.dist
                  /\ Len(call.name) >= 3
                  /\ Unshared(call.doc, call.name) <= call.dist)

\* C28 witness: a token of six bytes, half of them shared with the name, so
\* that the first two tests of the fallback hold, is rejected
C28_Witness ==
    /\ Returned("passesDistanceGate")
    /\ call.dist > 0
    /\ Len(call.doc) = 6 /\ Len(call.name) >= 3
    /\ Len(call.doc) >= 3 + call.dist
    /\ Unshared(call.doc, call.name) = 3
    /\ ret[1] = FALSE

\* the difference of the byte lengths exceeds both max_dist + 1 and 6
TooFarApart(tok, name, maxDist) ==
    LET lenDiff == IF Len(tok) < Len(name) THEN Len(name) - Len(tok) ELSE Len(tok) - Len(name)
    IN  lenDiff > maxDist + 1 /\ lenDiff > 6

\* C29: the length pre-check is a sound shortcut: whenever the byte lengths
\* of token and name differ by more than max_dist + 1 and by more than 6,
\* the Damerau-Levenshtein distance of the lower-cased strings exceeds
\* max_dist and hasSmallChunkDifference of them with bound 6 is false, so
\* checkSymbol decides as it would without the pre-check.
C29_PreCheckSound ==
    (Returned("lengthPreCheck") /\ TooFarApart(call.firstTok, call.name, call.maxDist)) =>
        /\ ~ret[1].pre
        /\ ~ret[1].delta
        /\ ret[1].match = ret[1].unchecked
        /\ ret[1].d > call.maxDist

\* the last part of C29 alone: past the pre-check's limits checkSymbol
\* decides as it would without the pre-check
C29_SameDecision ==
    (Returned("lengthPreCheck") /\ TooFarApart(call.firstTok, call.name, call.maxDist)) =>
        ret[1].match = ret[1].unchecked

\* the pre-check never skips a pair of ASCII strings that the edit-distance
\* block would match
C29_SoundOnAscii ==
    (/\ Returned("lengthPreCheck")
     /\ TooFarApart(call.firstTok, call.name, call.maxDist)
     /\ Len(Runes(call.name)) = Len(call.name))
        => /\ ret[1].d > call.maxDist
           /\ ~ret[1].delta
           /\ ret[1].match = ret[1].unchecked

\* the text of a comment between its markers, and a comment none of whose
\* lines holds anything but blanks and stars
BodyOf(raw) ==
    IF SubSeq(raw, 1, 2) = << "/", "*" >> THEN SubSeq(raw, 3, Len(raw) - 2)
    ELSE SubSeq(raw, 3, Len(raw))
BlankComment(raw) ==
    \A k \in 1..Len(BodyOf(raw)) : BodyOf(raw)[k] \in { " ", "\t", "*", "\n" }
FirstAlone == checkSymbol(newMatchConfig(DefaultFlags), DefaultFlags, << call.doc[1] >>,
                          call.name, IsExported(call.name), kindFunc, 1)
SecondAlone == checkSymbol(newMatchConfig(DefaultFlags), DefaultFlags, << call.doc[2] >>,
                           call.name, IsExported(call.name), kindFunc, 1)

====
